---- MODULE Spec2Model ----
(***************************************************************************)
(* The SSE streaming normalizer of sample_agent/demo.py:                   *)
(* stream_graph_execution (the orchestrator), _handle_node_output (the     *)
(* chunk classifier with the partial tool-call accumulator) and            *)
(* _handle_tool_message, together with the wire form of the events         *)
(* (to_sse).                                                               *)
(*                                                                         *)
(* Python values are modelled structurally.  A str is a sequence of        *)
(* one-character strings, so that strip() is computed; a dict is a TLA+    *)
(* function from its keys; a value whose Python type matters (the          *)
(* `arguments` of a tool call, the `content` of a message) is a tagged     *)
(* record [t, v].  None and "" are both falsy to the code wherever the     *)
(* model merges them (ids and names), and are written "".                  *)
(***************************************************************************)
EXTENDS Integers, Sequences, FiniteSets, TLC

VARIABLES
    pc,                      \* position of stream_graph_execution
    events,                  \* the SSE frames yielded so far, in order
    accumulated_tool_calls,  \* demo.py:492
    partial_tool_call_state, \* demo.py:494
    messages,                \* the request body handed to stream_graph_execution
    fatal,                   \* whether the outer except clause (line 557) ran
    pulled,                  \* the chunks graph.astream has yielded so far
    frags,                   \* trace of the fragments the accumulator handled
    classified,              \* the chunk numbers the loop body ran on, in order
    cancelled,               \* <<>>, or <<Len(events), Len(pulled)>> at the cancellation
    peer,                    \* a second, concurrent invocation of stream_graph_execution
    emitters,                \* the SSEEventEmitter objects (demo.py:235)
    heap,                    \* the event objects and lists the emitters' callers hold
    sessions,                \* demo.py:615
    handlers,                \* the threads running create_session_handler
    agent                    \* the run of the graph of agent.py

vars == <<pc, events, accumulated_tool_calls, partial_tool_call_state,
          messages, fatal, pulled, frags, classified, cancelled, peer,
          emitters, heap, sessions, handlers, agent>>

\* Bound of the model: how many chunks the upstream source yields at most.
MaxChunks == 3

\* run_handler passes agent_name = "root" (demo.py:597).
agent_name == "root"

---------------------------------------------------------------------------
(* Python values *)

Str(s) == [t |-> "str", v |-> s]
Dict(d) == [t |-> "dict", v |-> d]
\* A value json.dumps rejects (a set, an arbitrary object).
Opaque == [t |-> "object", v |-> <<"o">>]
\* The content of a multimodal message: a non-empty list of blocks.
List(l) == [t |-> "list", v |-> l]

EmptyStr == Str(<<>>)

\* bool(x) for a str, dict or list: non-empty.
Truthy(x) == x.v # <<>>

IsSpace(ch) == ch \in {" ", "\t", "\n"}

RECURSIVE LStrip(_)
LStrip(s) == IF s # <<>> /\ IsSpace(Head(s)) THEN LStrip(Tail(s)) ELSE s

RECURSIVE RStrip(_)
RStrip(s) ==
    IF s # <<>> /\ IsSpace(s[Len(s)]) THEN RStrip(SubSeq(s, 1, Len(s) - 1)) ELSE s

\* str.strip()
Strip(s) == RStrip(LStrip(s))

\* json.dumps of a dict whose items are <<key, digit>>: {"k": 1, "j": 2}
RECURSIVE JsonItems(_)
JsonItems(d) ==
    IF d = <<>> THEN <<>>
    ELSE <<"\"", d[1][1], "\"", ":", " ", d[1][2]>>
         \o (IF Len(d) > 1 THEN <<",", " ">> ELSE <<>>)
         \o JsonItems(Tail(d))

JsonDumps(x) == <<"{">> \o JsonItems(x.v) \o <<"}">>

\* json.dumps raises TypeError on anything that is not JSON data.
JsonSerializable(x) == x.t \in {"str", "dict", "list"}

---------------------------------------------------------------------------
(* The wire form of the events: to_sse *)

\* The arguments as ToolCallEvent.to_sse writes them (lines 101-112).
NormalizeArguments(args) ==
    IF args.t = "str" THEN args.v
    ELSE IF args.t = "dict" /\ args.v = <<>> THEN <<>>
    ELSE JsonDumps(args)

\* A rule that JSON-encodes every value that is no str, the empty dict too.
NormalizeJsonAlways(args) ==
    IF args.t = "str" THEN args.v ELSE JsonDumps(args)

\* The arguments as PartialToolCallEvent.to_sse writes them (lines 132-143).
PartialNormalizeArguments(args) ==
    IF args.t = "str" THEN args.v
    ELSE IF args.t = "dict" /\ args.v = <<>> THEN <<>>
    ELSE JsonDumps(args)

\* The arguments as ToolCallResponseEvent.to_sse writes them (lines 164-175).
ResponseNormalizeArguments(args) ==
    IF args.t = "str" THEN args.v
    ELSE IF args.t = "dict" /\ args.v = <<>> THEN <<>>
    ELSE JsonDumps(args)

\* One SSE frame.  Fields a kind does not carry are left empty; k is the
\* number of the chunk the frame was produced for (0: none).
Frame(type, an, k) ==
    [type |-> type, agent_name |-> an, id |-> "", name |-> "",
     arguments |-> <<>>, text |-> <<>>, error |-> "", usage |-> <<>>, k |-> k]

\* UserMessageEvent.to_sse never writes agent_name.
UserMessageFrame(message) == [Frame("user_message", "", 0) EXCEPT !.text = message]

StreamStartedFrame == Frame("stream_started", agent_name, 0)

StreamStoppedFrame == Frame("stream_stopped", agent_name, 0)

AgentChoiceFrame(content, k) ==
    [Frame("agent_choice", agent_name, k) EXCEPT !.text = content]

AgentChoiceReasoningFrame(content, k) ==
    [Frame("agent_choice_reasoning", agent_name, k) EXCEPT !.text = content]

\* tool_call is the dict handed to the event; a function dict without
\* "name" is written without it, which the frame shows as "".
ToolCallFields(type, tool_call, k) ==
    [Frame(type, agent_name, k) EXCEPT
        !.id = tool_call["id"],
        !.name = IF "name" \in DOMAIN tool_call["function"]
                 THEN tool_call["function"]["name"] ELSE "",
        !.arguments = NormalizeArguments(tool_call["function"]["arguments"])]

ToolCallFrame(tool_call, k) == ToolCallFields("tool_call", tool_call, k)

PartialToolCallFrame(tool_call, k) ==
    [ToolCallFields("partial_tool_call", tool_call, k) EXCEPT
        !.arguments = PartialNormalizeArguments(tool_call["function"]["arguments"])]

ToolCallResponseFrame(tool_call, response, k) ==
    [ToolCallFields("tool_call_response", tool_call, k) EXCEPT
        !.arguments = ResponseNormalizeArguments(tool_call["function"]["arguments"]),
        !.text = response]

TokenUsageFrame(usage, k) == [Frame("token_usage", agent_name, k) EXCEPT !.usage = usage]

ErrorFrame(error, k) == [Frame("error", agent_name, k) EXCEPT !.error = error]

\* to_sse assigns the normalized arguments into the function dict that the
\* shallow copy shares with the event's tool_call.
AfterToSse(tool_call) ==
    [tool_call EXCEPT !["function"]["arguments"] =
        Str(NormalizeArguments(tool_call["function"]["arguments"]))]

\* Whether to_sse of a tool-call event raises: json.dumps of the arguments.
ToSseRaises(tool_call) == ~JsonSerializable(tool_call["function"]["arguments"])

---------------------------------------------------------------------------
(* Attribute and key probing *)

\* The objects the code probes come in three shapes:
\*   "openai"    a dict {id, type, function: {name, arguments}}, the entries
\*               of additional_kwargs['tool_calls'];
\*   "langchain" a dict {name, args, id, type}, the entries of
\*               AIMessage.tool_calls and .tool_call_chunks (TypedDicts), and
\*               the usage_metadata TypedDict;
\*   "object"    an object carrying the same data as attributes.
\* getattr(x, attr, default): a dict has no such attribute.
GetAttr(x, attr, default) ==
    IF x.shape = "object" /\ attr \in DOMAIN x THEN x[attr] ELSE default

\* hasattr(x, attr)
HasAttr(x, attr) == x.shape = "object" /\ attr \in DOMAIN x

\* `key in x` raises TypeError unless x is a container.
IsMapping(x) == x.shape \in {"openai", "langchain"}

\* dict.get(key, default)
Get(d, key, default) == IF key \in DOMAIN d THEN d[key] ELSE default

\* d[key] = value
Put(d, key, value) == [x \in DOMAIN d \cup {key} |-> IF x = key THEN value ELSE d[x]]

\* d.update(other)
Update(d, other) ==
    [x \in DOMAIN d \cup DOMAIN other |-> IF x \in DOMAIN other THEN other[x] ELSE d[x]]

---------------------------------------------------------------------------
(* The partial tool-call accumulator: _handle_node_output, lines 370-431 *)

\* partial_tool_call_state = {}: no slot recorded, no 'emitted_ids' key
\* (.get('emitted_ids', set()) reads the missing key as the empty set).
EmptyPartialState == [slots |-> <<>>, emitted_ids |-> {}]

\* lines 375-376: tool_call_id
FragmentId(tool_call) == IF "id" \in DOMAIN tool_call THEN tool_call.id ELSE ""

\* lines 378-379: tool_name, read only from a 'function' dict
FragmentName(tool_call) ==
    IF tool_call.shape = "openai" THEN tool_call.name ELSE ""

\* lines 381-382: tool_args, read only from a 'function' dict
FragmentArgs(tool_call) ==
    IF tool_call.shape = "openai" THEN tool_call.args ELSE EmptyStr

\* The slot overwritten by every fragment, also with empty values.
ResolveIdentityOverwriting(state_key, tool_call_id, tool_name, st) ==
    [id |-> tool_call_id, name |-> tool_name,
     state |-> [st EXCEPT !.slots =
                   Put(st.slots, state_key, [id |-> tool_call_id, name |-> tool_name])]]

\* lines 385-398: the identity the fragment is emitted with and the slot
\* state after it.  state_key is the slot f"tool_call_{i}".
ResolveIdentity(state_key, tool_call_id, tool_name, st) ==
    IF tool_call_id # "" /\ tool_name # ""
    THEN [id |-> tool_call_id, name |-> tool_name,
          state |-> [st EXCEPT !.slots =
                        Put(st.slots, state_key, [id |-> tool_call_id, name |-> tool_name])]]
    ELSE IF state_key \in DOMAIN st.slots
    THEN [id |-> IF tool_call_id = "" THEN st.slots[state_key].id ELSE tool_call_id,
          name |-> IF tool_name = "" THEN st.slots[state_key].name ELSE tool_name,
          state |-> st]
    ELSE [id |-> tool_call_id, name |-> tool_name, state |-> st]

\* line 415: first time this tool call id is seen
FirstSighting(tool_call_id, st) ==
    tool_call_id # "" /\ tool_call_id \notin st.emitted_ids

\* lines 423-424: non-empty arguments
MeaningfulArguments(tool_args) ==
    /\ Truthy(tool_args)
    /\ IF tool_args.t = "str" THEN Strip(tool_args.v) # <<>> ELSE Truthy(tool_args)

\* should_emit without the test of the arguments.
ShouldEmitAlways(tool_call_id, tool_args, st) == TRUE

\* lines 412-425: should_emit
ShouldEmit(tool_call_id, tool_args, st) ==
    IF FirstSighting(tool_call_id, st) THEN TRUE
    ELSE MeaningfulArguments(tool_args)

\* The id never added to emitted_ids.
TrackEmittedNever(tool_call_id, st) == st

\* A variant of TrackEmitted that remembers the last new id only.
TrackEmittedLastOnly(tool_call_id, st) ==
    IF FirstSighting(tool_call_id, st)
    THEN [st EXCEPT !.emitted_ids = {tool_call_id}]
    ELSE st

\* lines 418-420: emitted_ids after the decision
TrackEmitted(tool_call_id, st) ==
    IF FirstSighting(tool_call_id, st)
    THEN [st EXCEPT !.emitted_ids = @ \cup {tool_call_id}]
    ELSE st

\* One iteration of the loop of line 370 on entry i (0-based) of chunk k.
\* acc = [events, state, trace, raised]: what the generator has yielded,
\* the accumulator state, the trace of handled fragments, and whether an
\* exception has ended the loop.  A trace entry records the fragment as
\* given (id, name, args), the identity it resolved to, whether that id was
\* in emitted_ids before, and the frames the step yielded.
FragmentStep(tool_call, i, acc, k) ==
    IF ~IsMapping(tool_call)
    THEN [acc EXCEPT !.raised = TRUE]          \* 'id' in tool_call: TypeError
    ELSE
    LET tool_args == FragmentArgs(tool_call)
        ident == ResolveIdentity(i, FragmentId(tool_call), FragmentName(tool_call), acc.state)
        tool_call_dict ==
            [id |-> ident.id, type |-> "function",
             function |-> [name |-> ident.name, arguments |-> tool_args]]
        should_emit == ShouldEmit(ident.id, tool_args, ident.state)
        st2 == TrackEmitted(ident.id, ident.state)
        fails == should_emit /\ ToSseRaises(tool_call_dict)
        out == IF should_emit /\ ~fails
               THEN <<PartialToolCallFrame(tool_call_dict, k)>> ELSE <<>>
        entry == [k |-> k, slot |-> i,
                  id |-> FragmentId(tool_call), name |-> FragmentName(tool_call),
                  args |-> tool_args, eff_id |-> ident.id, eff_name |-> ident.name,
                  known |-> ident.id \in acc.state.emitted_ids,
                  out |-> out]
    IN  [events |-> acc.events \o out,
         state |-> st2,
         trace |-> Append(acc.trace, entry),
         raised |-> fails]

RECURSIVE ToolCallLoop(_, _, _, _)
ToolCallLoop(tool_calls, n, acc, k) ==
    IF n > Len(tool_calls) \/ acc.raised THEN acc
    ELSE ToolCallLoop(tool_calls, n + 1, FragmentStep(tool_calls[n], n - 1, acc, k), k)

---------------------------------------------------------------------------
(* _handle_node_output *)

\* A variant of ContentEvents that hands on the trimmed content.
ContentEventsTrimmed(node_output, k) ==
    IF /\ Truthy(node_output.content)
       /\ node_output.content.t = "str"
       /\ Strip(node_output.content.v) # <<>>
    THEN <<AgentChoiceFrame(Strip(node_output.content.v), k)>>
    ELSE <<>>

\* lines 339-344: regular content
ContentEvents(node_output, k) ==
    IF /\ Truthy(node_output.content)
       /\ node_output.content.t = "str"
       /\ Strip(node_output.content.v) # <<>>
    THEN <<AgentChoiceFrame(node_output.content.v, k)>>
    ELSE <<>>

\* lines 346-351: reasoning content; <<>> stands for no or empty `reasoning`
ReasoningEvents(node_output, k) ==
    IF node_output.reasoning # <<>>
    THEN <<AgentChoiceReasoningFrame(node_output.reasoning, k)>>
    ELSE <<>>

\* lines 353-368: the list the accumulator loop runs over
SelectToolCalls(node_output) ==
    IF DOMAIN node_output.additional_kwargs # {}
    THEN IF "tool_calls" \in DOMAIN node_output.additional_kwargs
         THEN node_output.additional_kwargs["tool_calls"]
         ELSE <<>>
    ELSE IF node_output.tool_calls # <<>>
    THEN node_output.tool_calls
    ELSE IF node_output.tool_call_chunks # <<>>
    THEN node_output.tool_call_chunks
    ELSE <<>>

\* lines 433-448: usage_metadata (shape "none" is None)
UsageEvents(node_output, k) ==
    LET um == node_output.usage_metadata
    IN  IF um.shape # "none"
        THEN <<TokenUsageFrame(
                 <<GetAttr(um, "input_tokens", 0), GetAttr(um, "output_tokens", 0),
                   GetAttr(um, "total_tokens", 0)>>
                 \o (IF HasAttr(um, "cost") THEN <<um.cost>> ELSE <<>>), k)>>
        ELSE <<>>

\* lines 451-452: the legacy token usage is looked at
HasLegacyUsage(node_output) ==
    /\ DOMAIN node_output.response_metadata # {}
    /\ "token_usage" \in DOMAIN node_output.response_metadata

\* line 455: token_usage.get raises AttributeError when token_usage is None
LegacyUsageRaises(node_output) ==
    HasLegacyUsage(node_output) /\ node_output.response_metadata["token_usage"].t # "dict"

\* The legacy usage left out when usage_metadata was reported.
LegacyUsageDeduplicated(node_output, k) ==
    IF HasLegacyUsage(node_output) /\ node_output.usage_metadata.shape = "none"
    THEN LET token_usage == node_output.response_metadata["token_usage"].v
         IN  <<TokenUsageFrame(<<Get(token_usage, "prompt_tokens", 0),
                                 Get(token_usage, "completion_tokens", 0),
                                 Get(token_usage, "total_tokens", 0)>>, k)>>
    ELSE <<>>

\* lines 453-463
LegacyUsageEvents(node_output, k) ==
    IF HasLegacyUsage(node_output)
    THEN LET token_usage == node_output.response_metadata["token_usage"].v
         IN  <<TokenUsageFrame(<<Get(token_usage, "prompt_tokens", 0),
                                 Get(token_usage, "completion_tokens", 0),
                                 Get(token_usage, "total_tokens", 0)>>, k)>>
    ELSE <<>>

\* lines 465-472: the handler's own except clause
NodeOutputError(k) == ErrorFrame("Error processing node output", k)

\* The frames _handle_node_output yields for chunk k and the accumulator
\* state it leaves: [events, state, trace].
HandleNodeOutput(node_output, st, k) ==
    LET start == [events |-> ContentEvents(node_output, k) \o ReasoningEvents(node_output, k),
                  state |-> st, trace |-> <<>>, raised |-> FALSE]
        loop == ToolCallLoop(SelectToolCalls(node_output), 1, start, k)
        raised == loop.raised \/ LegacyUsageRaises(node_output)
        tail == IF loop.raised THEN <<>>
                ELSE UsageEvents(node_output, k)
                     \o (IF LegacyUsageRaises(node_output) THEN <<>>
                         ELSE LegacyUsageEvents(node_output, k))
    IN  [events |-> loop.events \o tail
                    \o (IF raised THEN <<NodeOutputError(k)>> ELSE <<>>),
         state |-> loop.state,
         trace |-> loop.trace]

---------------------------------------------------------------------------
(* _handle_tool_message *)

\* A 'tool_call' side-channel value: [t |-> "none"] when the key is absent,
\* [t |-> "dict", v |-> d] for a mapping, anything else for a value
\* dict.update rejects.
NoOverride == [t |-> "none"]

\* lines 272-279
ReconstructedToolCall(tool_message) ==
    [id |-> tool_message.tool_call_id, type |-> "function",
     function |-> [name |-> tool_message.name, arguments |-> Dict(<<>>)]]

\* lines 282-293: whether building the descriptor raises
DescriptorRaises(tool_message) ==
    \/ tool_message.kwargs_tool_call.t \notin {"none", "dict"}
    \/ tool_message.metadata_tool_call.t \notin {"none", "dict"}

\* lines 282-293: the descriptor after the side channels were applied
ToolCallDescriptor(tool_message) ==
    LET d0 == ReconstructedToolCall(tool_message)
        d1 == IF tool_message.kwargs_tool_call.t = "dict"
              THEN Update(d0, tool_message.kwargs_tool_call.v) ELSE d0
        d2 == IF tool_message.kwargs_arguments.t # "none"
              THEN [d1 EXCEPT !["function"] =
                       Put(d1["function"], "arguments", tool_message.kwargs_arguments)]
              ELSE d1
    IN  IF tool_message.metadata_tool_call.t = "dict"
        THEN Update(d2, tool_message.metadata_tool_call.v) ELSE d2

\* line 296: tool_call_dict["id"] and tool_call_dict["function"]["name"];
\* the second operand is read, and may raise KeyError, only if the id is set.
IdentityRaises(d) == d["id"] # "" /\ "name" \notin DOMAIN d["function"]

\* The test of line 296 without the name.
IdentityCompleteIdOnly(d) == d["id"] # ""

IdentityComplete(d) == d["id"] # "" /\ d["function"]["name"] # ""

\* lines 309-315
ToolMessageError(k) == ErrorFrame("Error processing tool message", k)

\* The frames _handle_tool_message yields for chunk k.
HandleToolMessage(tool_message, k) ==
    IF DescriptorRaises(tool_message) THEN <<ToolMessageError(k)>>
    ELSE LET d == ToolCallDescriptor(tool_message)
         IN  IF IdentityRaises(d) \/ ToSseRaises(d) THEN <<ToolMessageError(k)>>
             ELSE (IF IdentityComplete(d) THEN <<ToolCallFrame(d, k)>> ELSE <<>>)
                  \o <<ToolCallResponseFrame(
                         IF IdentityComplete(d) THEN AfterToSse(d) ELSE d,
                         tool_message.content.v, k)>>

---------------------------------------------------------------------------
(* stream_graph_execution: classification of one chunk, lines 512-553 *)

\* line 521: a tool call of the finalized list that was not emitted yet
IsNewToolCall(tool_call_id, accumulated) ==
    tool_call_id # "" /\ tool_call_id \notin DOMAIN accumulated

\* lines 519-537, one tool_call of c.tool_calls.
\* acc = [events, accumulated, raised].
FinalizedStep(tool_call, acc, k) ==
    LET tool_call_id == GetAttr(tool_call, "id", "")
        tool_call_dict ==
            [id |-> tool_call_id, type |-> "function",
             function |-> [name |-> GetAttr(tool_call, "name", ""),
                           arguments |-> GetAttr(tool_call, "args", Dict(<<>>))]]
    IN  IF IsNewToolCall(tool_call_id, acc.accumulated)
        THEN IF ToSseRaises(tool_call_dict)
             THEN [events |-> acc.events,
                   accumulated |-> Put(acc.accumulated, tool_call_id, tool_call_dict),
                   raised |-> TRUE]
             ELSE [events |-> Append(acc.events, ToolCallFrame(tool_call_dict, k)),
                   accumulated |-> Put(acc.accumulated, tool_call_id,
                                       AfterToSse(tool_call_dict)),
                   raised |-> FALSE]
        ELSE acc

RECURSIVE FinalizedLoop(_, _, _, _)
FinalizedLoop(tool_calls, n, acc, k) ==
    IF n > Len(tool_calls) \/ acc.raised THEN acc
    ELSE FinalizedLoop(tool_calls, n + 1, FinalizedStep(tool_calls[n], acc, k), k)

\* lines 547-553: the per-chunk except clause
ChunkError(k) == ErrorFrame("Error processing chunk", k)

\* The body of the loop of line 511 for the k-th chunk:
\* [events, accumulated, state, trace].
ClassifyChunk(chunk, k, accumulated, st) ==
    IF ~chunk.pair                              \* (c, meta) = chunk raises
    THEN [events |-> <<ChunkError(k)>>, accumulated |-> accumulated,
          state |-> st, trace |-> <<>>]
    ELSE IF chunk.c.kind = "ai"
    THEN LET fin == FinalizedLoop(chunk.c.tool_calls, 1,
                        [events |-> <<>>, accumulated |-> accumulated, raised |-> FALSE], k)
             out == HandleNodeOutput(chunk.c, st, k)
         IN  IF fin.raised
             THEN [events |-> Append(fin.events, ChunkError(k)),
                   accumulated |-> fin.accumulated, state |-> st, trace |-> <<>>]
             ELSE [events |-> fin.events \o out.events,
                   accumulated |-> fin.accumulated,
                   state |-> out.state, trace |-> out.trace]
    ELSE IF chunk.c.kind = "tool"
    THEN [events |-> HandleToolMessage(chunk.c, k), accumulated |-> accumulated,
          state |-> st, trace |-> <<>>]
    ELSE [events |-> <<>>, accumulated |-> accumulated, state |-> st, trace |-> <<>>]

---------------------------------------------------------------------------
(* stream_graph_execution: the generator *)

\* lines 498-499: messages[-1]["content"] raises on an empty list, on a body
\* that is no list, and on a last message without "content".
EntryRaises(body) ==
    \/ body.t # "list"
    \/ body.v = <<>>
    \/ "content" \notin DOMAIN body.v[Len(body.v)]

\* The entry with a UserMessage whatever the content.
EntryEventsAlways(body) ==
    <<UserMessageFrame(body.v[Len(body.v)]["content"].v), StreamStartedFrame>>

\* lines 501-504
EntryEvents(body) ==
    LET content == body.v[Len(body.v)]["content"]
    IN  (IF Truthy(content) THEN <<UserMessageFrame(content.v)>> ELSE <<>>)
        \o <<StreamStartedFrame>>

\* The outer except clause without its StreamStoppedEvent.
FatalEventsNoStop == <<ErrorFrame("Fatal error during graph execution", 0)>>

\* The outer except clause without its ErrorEvent.
FatalEventsNoError == <<Frame("stream_stopped", agent_name, 0)>>

\* lines 557-565: the outer except clause
FatalEvents ==
    <<ErrorFrame("Fatal error during graph execution", 0), StreamStoppedFrame>>

\* lines 490-504: from the call to the first pull from graph.astream
Start ==
    /\ pc = "idle"
    /\ IF EntryRaises(messages)
       THEN /\ events' = events \o FatalEvents
            /\ fatal' = TRUE
            /\ pc' = "stopped"
       ELSE /\ events' = events \o EntryEvents(messages)
            /\ fatal' = fatal
            /\ pc' = "streaming"
    /\ UNCHANGED <<accumulated_tool_calls, partial_tool_call_state, messages, pulled, frags,
                   classified, cancelled, peer,
                   emitters, heap, sessions, handlers, agent>>

\* The loop without its per-chunk try: a chunk that raises ends the stream.
PullUnguarded(chunk) ==
    /\ pc = "streaming"
    /\ LET k == Len(pulled) + 1
           r == ClassifyChunk(chunk, k, accumulated_tool_calls, partial_tool_call_state)
           raised == \E i \in DOMAIN r.events : r.events[i].type = "error"
       IN  /\ events' = events \o r.events
           /\ accumulated_tool_calls' = r.accumulated
           /\ partial_tool_call_state' = r.state
           /\ frags' = frags \o r.trace
           /\ pc' = IF raised THEN "stopped" ELSE pc
           /\ classified' = Append(classified, k)
    /\ pulled' = Append(pulled, chunk)
    /\ UNCHANGED <<messages, fatal, cancelled, peer,
                   emitters, heap, sessions, handlers, agent>>

\* The loop body run a second time on a chunk whose classification failed.
PullRetrying(chunk) ==
    /\ pc = "streaming"
    /\ LET k == Len(pulled) + 1
           r == ClassifyChunk(chunk, k, accumulated_tool_calls, partial_tool_call_state)
           failed == \E i \in DOMAIN r.events : r.events[i].type = "error"
           again == ClassifyChunk(chunk, k, r.accumulated, r.state)
       IN  /\ events' = events \o r.events \o (IF failed THEN again.events ELSE <<>>)
           /\ accumulated_tool_calls' = IF failed THEN again.accumulated ELSE r.accumulated
           /\ partial_tool_call_state' = IF failed THEN again.state ELSE r.state
           /\ frags' = frags \o r.trace \o (IF failed THEN again.trace ELSE <<>>)
           /\ classified' = classified \o (IF failed THEN <<k, k>> ELSE <<k>>)
    /\ pulled' = Append(pulled, chunk)
    /\ UNCHANGED <<pc, messages, fatal, cancelled, peer,
                   emitters, heap, sessions, handlers, agent>>

\* lines 511-553: graph.astream yields `chunk` and the loop body runs on it
Pull(chunk) ==
    /\ pc = "streaming"
    /\ LET k == Len(pulled) + 1
           r == ClassifyChunk(chunk, k, accumulated_tool_calls, partial_tool_call_state)
       IN  /\ events' = events \o r.events
           /\ accumulated_tool_calls' = r.accumulated
           /\ partial_tool_call_state' = r.state
           /\ frags' = frags \o r.trace
           /\ classified' = Append(classified, k)
    /\ pulled' = Append(pulled, chunk)
    /\ UNCHANGED <<pc, messages, fatal, cancelled, peer,
                   emitters, heap, sessions, handlers, agent>>

\* lines 511, 555: graph.astream is exhausted
Exhausted ==
    /\ pc = "streaming"
    /\ events' = Append(events, StreamStoppedFrame)
    /\ pc' = "stopped"
    /\ UNCHANGED <<accumulated_tool_calls, partial_tool_call_state, messages, fatal,
                   pulled, frags, classified, cancelled, peer,
                   emitters, heap, sessions, handlers, agent>>

\* lines 511, 557-565: graph.astream raises
SourceRaises ==
    /\ pc = "streaming"
    /\ events' = events \o FatalEvents
    /\ fatal' = TRUE
    /\ pc' = "stopped"
    /\ UNCHANGED <<accumulated_tool_calls, partial_tool_call_state, messages, pulled, frags,
                   classified, cancelled, peer,
                   emitters, heap, sessions, handlers, agent>>

---------------------------------------------------------------------------
(* Inputs *)

UserMessage(content) == [role |-> "user", content |-> Str(content)]

\* Request bodies: a conversation ending in a non-empty or an empty user
\* message, an empty list, a last message without content, a JSON object.
Bodies ==
    { List(<<UserMessage(<<"h", "i">>)>>),
      List(<<UserMessage(<<"h", "i">>), UserMessage(<<>>)>>),
      List(<<>>),
      List(<<[role |-> "user"]>>),
      Dict(<<<<"messages", "1">>>>) }

\* An AIMessageChunk with nothing in it.
AIChunk ==
    [kind |-> "ai", content |-> EmptyStr, reasoning |-> <<>>,
     additional_kwargs |-> <<>>, tool_calls |-> <<>>, tool_call_chunks |-> <<>>,
     usage_metadata |-> [shape |-> "none"], response_metadata |-> <<>>]

\* A ToolMessage without side channels.
ToolResult(tool_call_id, name, content) ==
    [kind |-> "tool", tool_call_id |-> tool_call_id, name |-> name,
     content |-> Str(content), kwargs_tool_call |-> NoOverride,
     kwargs_arguments |-> [t |-> "none"], metadata_tool_call |-> NoOverride]

HumanChunk == [kind |-> "human", content |-> Str(<<"h", "i">>)]

Pair(c) == [pair |-> TRUE, c |-> c]

\* An upstream element that is no (message, metadata) pair.
NotAPair == [pair |-> FALSE, c |-> HumanChunk]

OpenAIFragment(id, name, args) ==
    [shape |-> "openai", id |-> id, name |-> name, args |-> Str(args)]

LangChainToolCall(id, name, args) ==
    [shape |-> "langchain", id |-> id, name |-> name, args |-> args]

ObjectToolCall(id, name, args) ==
    [shape |-> "object", id |-> id, name |-> name, args |-> args]

Tokyo == Dict(<<<<"q", "1">>>>)

\* The chunks of the lifecycle specification: one of every kind of chunk
\* and of every place a classification can raise.
LifecycleChunks ==
    { NotAPair,
      Pair(HumanChunk),
      Pair([AIChunk EXCEPT !.content = Str(<<"o", "k">>)]),
      Pair([AIChunk EXCEPT !.content = Str(<<"o", "k">>),
                           !.response_metadata = [token_usage |-> [t |-> "none"]]]),
      Pair([AIChunk EXCEPT !.tool_calls = <<ObjectToolCall("t1", "get_weather", Tokyo)>>]),
      Pair([AIChunk EXCEPT !.tool_calls = <<ObjectToolCall("t2", "get_weather", Opaque)>>]),
      Pair([AIChunk EXCEPT !.additional_kwargs =
               [tool_calls |-> <<OpenAIFragment("t1", "get_weather", <<"{">>)>>]]),
      Pair([AIChunk EXCEPT
               !.usage_metadata = [shape |-> "langchain", input_tokens |-> 3,
                                   output_tokens |-> 2, total_tokens |-> 5],
               !.response_metadata =
                   [token_usage |-> [t |-> "dict",
                                     v |-> [prompt_tokens |-> 3, completion_tokens |-> 2,
                                            total_tokens |-> 5]]]]),
      Pair(ToolResult("t1", "get_weather", <<"7", "0">>)),
      Pair([ToolResult("t1", "get_weather", <<"7", "0">>) EXCEPT
               !.kwargs_tool_call = [t |-> "str"]]) }

\* An AIMessageChunk whose additional_kwargs['tool_calls'] is `fragments`.
FragmentChunk(fragments) ==
    Pair([AIChunk EXCEPT !.additional_kwargs = [tool_calls |-> fragments]])

FragmentIds == {"", "t1", "t2"}

FragmentNames == {"", "get_weather"}

FragmentArguments == {<<>>, <<" ">>, <<"{">>}

\* The chunks of the accumulator specification: every one-fragment chunk
\* over the ids, names and arguments above, chunks with a second slot, and
\* a fragment whose arguments are a dict.
FragmentChunks ==
    { FragmentChunk(<<OpenAIFragment(id, name, args)>>) :
         id \in FragmentIds, name \in FragmentNames, args \in FragmentArguments }
    \cup
    { FragmentChunk(<<OpenAIFragment("t1", "get_weather", <<>>),
                      OpenAIFragment("t2", "search", <<>>)>>),
      FragmentChunk(<<OpenAIFragment("", "", <<"{">>), OpenAIFragment("", "", <<" ">>)>>),
      FragmentChunk(<<[shape |-> "openai", id |-> "", name |-> "", args |-> Tokyo]>>) }

\* The places a model-output message can carry tool calls in.
LegacyFields ==
    { <<>>,
      [refusal |-> "none"],
      [tool_calls |-> <<>>],
      [tool_calls |-> <<OpenAIFragment("t0", "get_weather", <<"{">>)>>] }

\* The chunks of the tool-call source specification: every combination of
\* a legacy field, a standard tool_calls list and a tool_call_chunks list,
\* and messages with several finalized tool calls, as dicts and as objects.
SourceChunks ==
    { Pair([AIChunk EXCEPT !.additional_kwargs = legacy,
                           !.tool_calls = standard,
                           !.tool_call_chunks = chunked]) :
         legacy \in LegacyFields,
         standard \in {<<>>, <<LangChainToolCall("t1", "get_weather", Tokyo)>>},
         chunked \in {<<>>, <<LangChainToolCall("t3", "search", Str(<<"{">>))>>} }
    \cup
    { Pair([AIChunk EXCEPT !.tool_calls = standard]) :
         standard \in
            { <<LangChainToolCall("t1", "get_weather", Tokyo),
                LangChainToolCall("t2", "search", Tokyo)>>,
              <<ObjectToolCall("t1", "get_weather", Tokyo)>>,
              <<ObjectToolCall("t2", "search", Tokyo)>>,
              <<ObjectToolCall("t1", "get_weather", Tokyo),
                ObjectToolCall("t2", "search", Tokyo)>> } }

---------------------------------------------------------------------------
(* Specifications *)

\* Two emitters as SSEEventEmitter.__init__ leaves them (lines 238-240):
\* the default agent name and a given one, and an empty list of events.
\* `events` names the list object in the heap.
NewEmitters ==
    [e \in {"a", "b"} |->
        [agent_name |-> IF e = "a" THEN "sample_agent" ELSE "root",
         events |-> IF e = "a" THEN "list_a" ELSE "list_b"]]

\* The objects of the emitters' callers: three events - one built without
\* agent_name, one with an empty and one with a non-empty agent_name - the
\* two lists of the emitters, and no list returned by get_events yet.
\* `log` records the emit_event calls as <<emitter, event>>.
NewHeap ==
    [agent_name |-> [ev1 |-> "", ev2 |-> "", ev3 |-> "planner"],
     lists |-> [list_a |-> <<>>, list_b |-> <<>>, returned |-> <<>>],
     returned |-> "none",
     log |-> <<>>]

\* The threads of the server's pool, none of them in create_session_handler.
IdleHandlers ==
    [t \in {1, 2} |-> [pc |-> "idle", session_id |-> <<>>, returned |-> <<>>]]

\* workflow.set_entry_point("chat_node") (agent.py:45): the run is about
\* to enter chat_node with the messages of the request.
EntryPoint ==
    [node |-> "chat_node",
     messages |-> <<[type |-> "human", tool_calls |-> <<>>]>>,
     visited |-> <<"chat_node">>]

\* An invocation of stream_graph_execution that has not run yet: its
\* locals of lines 492 and 494 are created empty when it starts.
NotStarted ==
    [pc |-> "idle", events |-> <<>>, accumulated_tool_calls |-> <<>>,
     partial_tool_call_state |-> EmptyPartialState, pulled |-> <<>>, frags |-> <<>>]

Init ==
    /\ pc = "idle"
    /\ events = <<>>
    /\ accumulated_tool_calls = <<>>
    /\ partial_tool_call_state = EmptyPartialState
    /\ messages \in Bodies
    /\ fatal = FALSE
    /\ pulled = <<>>
    /\ frags = <<>>
    /\ classified = <<>>
    /\ cancelled = <<>>
    /\ peer = NotStarted
    /\ emitters = NewEmitters
    /\ heap = NewHeap
    /\ sessions = <<>>
    /\ handlers = IdleHandlers
    /\ agent = EntryPoint

PullChunk == \E chunk \in LifecycleChunks : Len(pulled) < MaxChunks /\ Pull(chunk)

Next == Start \/ PullChunk \/ Exhausted \/ SourceRaises

Spec == Init /\ [][Next]_vars

---------------------------------------------------------------------------
(* Reading the event stream *)

Positions(type) == {i \in DOMAIN events : events[i].type = type}

CountOf(type) == Cardinality(Positions(type))

\* The frames produced for the k-th chunk.
ErrorsOfChunk(k) == {i \in DOMAIN events : events[i].type = "error" /\ events[i].k = k}

FatalErrors ==
    {i \in DOMAIN events : events[i].error = "Fatal error during graph execution"}

ContentTypes ==
    {"agent_choice", "agent_choice_reasoning", "partial_tool_call", "tool_call",
     "tool_call_response", "token_usage"}

---------------------------------------------------------------------------
(* The stream lifecycle *)

\* C1: every run of stream_graph_execution that reaches its end - the
\* source exhausted, chunks that failed on the way, the source raising, a
\* failure before the stream is opened - has emitted exactly one
\* StreamStopped, as its last event; a run that has not ended has emitted none.
C1_OneStreamStoppedLast ==
    /\ pc = "stopped" =>
          /\ CountOf("stream_stopped") = 1
          /\ events[Len(events)].type = "stream_stopped"
    /\ pc # "stopped" => CountOf("stream_stopped") = 0

\* A run with a failed chunk that ended on an error of the source.
C1_Witness ==
    /\ pc = "stopped"
    /\ fatal
    /\ \E k \in DOMAIN pulled : ErrorsOfChunk(k) # {}

\* C2 as claimed: a completed run has emitted exactly one StreamStarted, and
\* it precedes every content, tool-call and usage event.
C2_OneStreamStartedFirst ==
    pc = "stopped" =>
        /\ CountOf("stream_started") = 1
        /\ \A i \in Positions("stream_started") :
              \A j \in DOMAIN events : events[j].type \in ContentTypes => i < j

\* C3: an exception outside the per-chunk try (before the iteration or from
\* the source) yields one Error for it, directly followed by the terminal
\* StreamStopped, and nothing after; without such an exception there is no
\* such Error.
C3_FatalErrorThenStopped ==
    /\ fatal =>
          /\ pc = "stopped"
          /\ Len(events) >= 2
          /\ FatalErrors = {Len(events) - 1}
          /\ events[Len(events) - 1].type = "error"
          /\ events[Len(events)].type = "stream_stopped"
          /\ \A i \in DOMAIN events : events[i].k > 0 => i < Len(events) - 1
    /\ ~fatal => FatalErrors = {}

\* The source raised after chunks had produced events.
C3_Witness ==
    /\ fatal
    /\ Len(pulled) >= 2
    /\ \E i \in DOMAIN events : events[i].k > 0 /\ events[i].type \in ContentTypes

\* A chunk whose classification raises whatever came before it: at the
\* unpacking, in the accumulator loop of _handle_node_output (an entry
\* that is no container), at the legacy token usage, or while the tool
\* message's descriptor is built.
AlwaysRaises(chunk) ==
    \/ ~chunk.pair
    \/ /\ chunk.pair
       /\ chunk.c.kind = "ai"
       /\ \/ chunk.c.response_metadata = [token_usage |-> [t |-> "none"]]
          \/ /\ chunk.c.additional_kwargs = <<>>
             /\ \E n \in DOMAIN chunk.c.tool_calls : chunk.c.tool_calls[n].shape = "object"
    \/ /\ chunk.pair
       /\ chunk.c.kind = "tool"
       /\ chunk.c.kwargs_tool_call = [t |-> "str"]

\* A chunk that carries text and nothing that can raise.
PlainContent(chunk) ==
    /\ chunk.pair
    /\ chunk.c.kind = "ai"
    /\ chunk.c.content = Str(<<"o", "k">>)
    /\ chunk.c.tool_calls = <<>>
    /\ chunk.c.response_metadata = <<>>

\* C4: a chunk whose classification raises produces exactly one Error (and
\* no chunk more than one); the chunks after it are still classified - a
\* later text chunk yields its AgentChoice - and when the stream ends it
\* ends with StreamStopped.
C4_ChunkErrorIsolated ==
    /\ \A k \in DOMAIN pulled :
          /\ Cardinality(ErrorsOfChunk(k)) <= 1
          /\ AlwaysRaises(pulled[k]) => Cardinality(ErrorsOfChunk(k)) = 1
          /\ PlainContent(pulled[k]) =>
                \E i \in DOMAIN events :
                    events[i].type = "agent_choice" /\ events[i].k = k
    /\ (pulled # <<>> /\ ~fatal /\ pc = "stopped") =>
          events[Len(events)].type = "stream_stopped"

\* A failed chunk, then a text chunk that was classified, then the end.
C4_Witness ==
    /\ pc = "stopped"
    /\ ~fatal
    /\ Len(pulled) >= 2
    /\ AlwaysRaises(pulled[1])
    /\ PlainContent(pulled[2])
    /\ \E i \in DOMAIN events : events[i].type = "agent_choice" /\ events[i].k = 2

\* The accumulator specification: one request, chunks of tool-call
\* fragments, the source exhausted at any point.
InitFragments == Init /\ messages = List(<<UserMessage(<<"h", "i">>)>>)

PullFragments == \E chunk \in FragmentChunks : Len(pulled) < MaxChunks /\ Pull(chunk)

NextFragments == Start \/ PullFragments \/ Exhausted

SpecFragments == InitFragments /\ [][NextFragments]_vars

---------------------------------------------------------------------------
(* The accumulator *)

\* The arguments of a fragment carry something: a str that is not blank
\* after trimming, or a non-empty value of another type.
NonBlank(args) == IF args.t = "str" THEN Strip(args.v) # <<>> ELSE args.v # <<>>

\* The fragments that resolved to `id`, by their place in the trace.
FragmentsOf(id) == {n \in DOMAIN frags : frags[n].eff_id = id}

FirstOf(id) == CHOOSE n \in FragmentsOf(id) : \A m \in FragmentsOf(id) : n <= m

PartialFramesOf(id, k) ==
    {i \in DOMAIN events :
        events[i].type = "partial_tool_call" /\ events[i].id = id /\ events[i].k = k}

\* The frames the trace says the fragments yielded, in order.
RECURSIVE TraceFrames(_)
TraceFrames(n) == IF n = 0 THEN <<>> ELSE TraceFrames(n - 1) \o frags[n].out

IsPartial(frame) == frame.type = "partial_tool_call"

\* The PartialToolCall frames of the stream are the frames of the trace.
TraceMatchesEvents == SelectSeq(events, IsPartial) = TraceFrames(Len(frags))

\* C5: of the fragments of one stream that resolve to the same non-empty
\* id, the first yields exactly one PartialToolCall whatever its arguments,
\* every later one with non-blank arguments yields exactly one, and every
\* later one with empty or whitespace-only arguments yields none: chunk by
\* chunk, the stream holds exactly these PartialToolCall frames for the id.
C5_PartialPerFragment ==
    \A id \in FragmentIds \ {""} :
        /\ \A n \in FragmentsOf(id) :
              Len(frags[n].out) = IF n = FirstOf(id) \/ NonBlank(frags[n].args) THEN 1 ELSE 0
        /\ \A k \in DOMAIN pulled :
              Cardinality(PartialFramesOf(id, k)) =
                 Cardinality({n \in FragmentsOf(id) :
                                 /\ frags[n].k = k
                                 /\ n = FirstOf(id) \/ NonBlank(frags[n].args)})

\* Empty, then non-empty, then empty arguments for t1: two PartialToolCalls.
C5_Witness ==
    /\ Len(frags) = 3
    /\ \A n \in 1..3 : frags[n].eff_id = "t1"
    /\ frags[1].args = Str(<<>>)
    /\ frags[2].args = Str(<<"{">>)
    /\ frags[3].args = Str(<<" ">>)
    /\ Cardinality(Positions("partial_tool_call")) = 2

\* C6 as claimed: a fragment yields a PartialToolCall only if its effective
\* id is non-empty and new, or already emitted and its arguments non-blank.
C6_EmitOnlyForKnownIds ==
    \A n \in DOMAIN frags :
        frags[n].out # <<>> =>
            \/ frags[n].eff_id # "" /\ ~frags[n].known
            \/ frags[n].known /\ NonBlank(frags[n].args)

\* C6 amended: a fragment yields a PartialToolCall exactly if its effective
\* id is non-empty and new, or its arguments are non-blank - also when its
\* effective id is empty; and the stream holds no other PartialToolCall.
C6_EmitIffFirstOrNonBlank ==
    /\ \A n \in DOMAIN frags :
          /\ Len(frags[n].out) <= 1
          /\ frags[n].out # <<>> <=>
                \/ frags[n].eff_id # "" /\ ~frags[n].known
                \/ NonBlank(frags[n].args)
    /\ TraceMatchesEvents

\* A fragment without identity and with arguments was emitted, and a blank
\* fragment of a known id was suppressed.
C6_Witness ==
    /\ \E n \in DOMAIN frags :
          frags[n].eff_id = "" /\ NonBlank(frags[n].args) /\ frags[n].out # <<>>
    /\ \E n \in DOMAIN frags : frags[n].known /\ frags[n].out = <<>>

\* The last fragment before n on n's slot that carried both id and name.
Recorded(n) ==
    {m \in 1..(n - 1) :
        /\ frags[m].slot = frags[n].slot
        /\ frags[m].id # "" /\ frags[m].name # ""
        /\ \A j \in (m + 1)..(n - 1) :
              frags[j].slot = frags[n].slot => frags[j].id = "" \/ frags[j].name = ""}

\* C7: a slot never holds an empty id or name, and a fragment that omits
\* both id and name on a slot with a recorded pair resolves to, and is
\* emitted with, exactly the pair last recorded for the slot.
C7_SlotIdentityInherited ==
    /\ \A key \in DOMAIN partial_tool_call_state.slots :
          /\ partial_tool_call_state.slots[key].id # ""
          /\ partial_tool_call_state.slots[key].name # ""
    /\ \A n \in DOMAIN frags :
          \A m \in Recorded(n) :
              /\ frags[n].slot \in DOMAIN partial_tool_call_state.slots
              /\ (frags[n].id = "" /\ frags[n].name = "") =>
                    /\ frags[n].eff_id = frags[m].id
                    /\ frags[n].eff_name = frags[m].name
                    /\ \A i \in DOMAIN frags[n].out :
                          /\ frags[n].out[i].id = frags[m].id
                          /\ frags[n].out[i].name = frags[m].name
    /\ TraceMatchesEvents

\* (slot 0, t1, get_weather, ""), then (slot 0, "", "", "{") emitted as
\* t1/get_weather.
C7_Witness ==
    /\ Len(frags) >= 2
    /\ frags[1].id = "t1" /\ frags[1].name = "get_weather" /\ frags[1].args = Str(<<>>)
    /\ frags[2].slot = 0 /\ frags[2].id = "" /\ frags[2].name = ""
    /\ frags[2].args = Str(<<"{">>)
    /\ \E i \in DOMAIN events :
          /\ events[i].type = "partial_tool_call" /\ events[i].k = 2
          /\ events[i].id = "t1" /\ events[i].name = "get_weather"

\* The tool-call source specification: one request, model-output chunks
\* that carry tool calls in their different places.
InitSources == Init /\ messages = List(<<UserMessage(<<"h", "i">>)>>)

PullSources == \E chunk \in SourceChunks : Len(pulled) < MaxChunks /\ Pull(chunk)

NextSources == Start \/ PullSources \/ Exhausted

SpecSources == InitSources /\ [][NextSources]_vars

---------------------------------------------------------------------------
(* Where the tool calls of a message are read from *)

\* The fragments the accumulator handled for chunk k.
FragmentsOfChunk(k) == {n \in DOMAIN frags : frags[n].k = k}

LegacyToolCalls(c) ==
    IF "tool_calls" \in DOMAIN c.additional_kwargs
    THEN c.additional_kwargs["tool_calls"] ELSE <<>>

\* The first non-empty of: legacy field, tool_calls, tool_call_chunks.
FirstNonEmptySource(c) ==
    IF LegacyToolCalls(c) # <<>> THEN LegacyToolCalls(c)
    ELSE IF c.tool_calls # <<>> THEN c.tool_calls
    ELSE c.tool_call_chunks

AllDicts(tool_calls) == \A n \in DOMAIN tool_calls : tool_calls[n].shape # "object"

\* C8 as claimed: the accumulator is given the entries of the first
\* non-empty source; with the legacy field absent or empty, those of
\* tool_calls or, failing that, of tool_call_chunks.
C8_FirstNonEmptySource ==
    \A k \in DOMAIN pulled :
        LET src == FirstNonEmptySource(pulled[k].c)
        IN  AllDicts(src) =>
               /\ Cardinality(FragmentsOfChunk(k)) = Len(src)
               /\ \A n \in FragmentsOfChunk(k) : frags[n].id = src[frags[n].slot + 1].id

\* The finalized tool calls of the messages pulled so far, by id.
FinalizedIds ==
    UNION {{pulled[k].c.tool_calls[n].id : n \in DOMAIN pulled[k].c.tool_calls} :
              k \in DOMAIN pulled} \ {""}

ToolCallFramesOf(id) ==
    {i \in DOMAIN events : events[i].type = "tool_call" /\ events[i].id = id}

\* C9 as claimed: every finalized tool call with a non-empty id yields
\* exactly one ToolCall in the stream, when its id is first seen, and the
\* id is recorded in accumulated_tool_calls.
C9_ToolCallOncePerId ==
    \A id \in FinalizedIds :
        /\ Cardinality(ToolCallFramesOf(id)) = 1
        /\ id \in DOMAIN accumulated_tool_calls

\* C10 as claimed: a finalized tool call with id, name and non-empty args
\* is emitted as a ToolCall, and its message yields no PartialToolCall for it.
C10_FinalizedNotPartial ==
    \A k \in DOMAIN pulled :
        \A n \in DOMAIN pulled[k].c.tool_calls :
            LET tool_call == pulled[k].c.tool_calls[n]
            IN  (tool_call.id # "" /\ tool_call.name # "" /\ Truthy(tool_call.args)) =>
                   /\ ToolCallFramesOf(tool_call.id) # {}
                   /\ PartialFramesOf(tool_call.id, k) = {}

---------------------------------------------------------------------------
(* Tool-execution results *)

\* A 'tool_call' side channel that replaces id and function; the function
\* dict it brings has no "name".
NamelessFunction(id) ==
    Dict([id |-> id, function |-> [arguments |-> Str(<<"{">>)]])

\* The chunks of the tool-result specification: ToolMessages over empty
\* and non-empty ids, names and contents, and ToolMessages whose
\* additional_kwargs / metadata carry a 'tool_call' or 'arguments' entry.
ToolChunks ==
    { Pair(ToolResult(id, name, content)) :
         id \in {"", "t1"}, name \in {"", "get_weather"},
         content \in {<<"7", "0">>, <<>>} }
    \cup
    { Pair([ToolResult("t1", "get_weather", <<"7", "0">>) EXCEPT
               !.kwargs_arguments = args]) : args \in {Tokyo, Str(<<"{">>), Opaque} }
    \cup
    { Pair([ToolResult("", "get_weather", <<"7", "0">>) EXCEPT !.kwargs_arguments = Opaque]),
      Pair([ToolResult("", "get_weather", <<"7", "0">>) EXCEPT
               !.kwargs_tool_call = Dict([id |-> "t2"])]),
      Pair([ToolResult("t1", "get_weather", <<"7", "0">>) EXCEPT
               !.metadata_tool_call = Dict([id |-> ""])]),
      Pair([ToolResult("t1", "get_weather", <<"7", "0">>) EXCEPT
               !.kwargs_tool_call = NamelessFunction("t1")]),
      Pair([ToolResult("t1", "get_weather", <<"7", "0">>) EXCEPT
               !.kwargs_tool_call = NamelessFunction("")]),
      Pair([ToolResult("t1", "get_weather", <<"7", "0">>) EXCEPT
               !.kwargs_tool_call = [t |-> "str"]]),
      Pair([AIChunk EXCEPT !.content = Str(<<"o", "k">>)]) }

InitTools == Init /\ messages = List(<<UserMessage(<<"h", "i">>)>>)

PullTools == \E chunk \in ToolChunks : Len(pulled) < MaxChunks /\ Pull(chunk)

NextTools == Start \/ PullTools \/ Exhausted

SpecTools == InitTools /\ [][NextTools]_vars

\* The frames produced for the k-th chunk, in order.
FramesOfChunk(k) == SelectSeq(events, LAMBDA e : e.k = k)

\* The frames of one chunk are adjacent in the stream.
ChunkFramesAdjacent ==
    \A i, j \in DOMAIN events :
        (i < j /\ events[i].k > 0 /\ events[j].k > 0) => events[i].k <= events[j].k

IsToolResult(chunk) == chunk.pair /\ chunk.c.kind = "tool"

\* A ToolMessage without 'tool_call' / 'arguments' side channels.
NoSideChannels(m) ==
    /\ m.kwargs_tool_call = NoOverride
    /\ m.kwargs_arguments = [t |-> "none"]
    /\ m.metadata_tool_call = NoOverride

\* A ToolMessage whose side channels make the handler raise: a 'tool_call'
\* that is no mapping, arguments json.dumps rejects, or an id together with
\* a function dict without "name".
SideChannelsRaise(m) ==
    \/ m.kwargs_tool_call = [t |-> "str"]
    \/ m.kwargs_arguments = Opaque
    \/ m.kwargs_tool_call = NamelessFunction("t1")

\* ToolCall, ToolCallResponse of one descriptor, the response last.
SameDescriptor(a, b) == a.id = b.id /\ a.name = b.name /\ a.arguments = b.arguments

---------------------------------------------------------------------------
(* The order of the events *)

UsageMetadata ==
    [shape |-> "langchain", input_tokens |-> 3, output_tokens |-> 2, total_tokens |-> 5]

TokenUsage ==
    [token_usage |-> [t |-> "dict",
                      v |-> [prompt_tokens |-> 3, completion_tokens |-> 2,
                             total_tokens |-> 5]]]

\* The ways a model-output message carries tool calls: none, a streamed
\* fragment, finalized tool calls as dicts and as objects, and finalized
\* tool calls next to a streamed fragment.
ToolCallCarriers ==
    { [additional_kwargs |-> <<>>, tool_calls |-> <<>>],
      [additional_kwargs |-> [tool_calls |-> <<OpenAIFragment("t0", "search", <<"{">>)>>],
       tool_calls |-> <<>>],
      [additional_kwargs |-> <<>>,
       tool_calls |-> <<LangChainToolCall("t1", "get_weather", Tokyo)>>],
      [additional_kwargs |-> <<>>,
       tool_calls |-> <<ObjectToolCall("t1", "get_weather", Tokyo)>>],
      [additional_kwargs |-> [tool_calls |-> <<OpenAIFragment("t1", "get_weather", <<"{">>)>>],
       tool_calls |-> <<ObjectToolCall("t1", "get_weather", Tokyo)>>] }

\* The chunks of the ordering specification: messages with reasoning and
\* both kinds of usage, with and without text, over the carriers above; a
\* message with text only, an empty message and a tool result.
OrderChunks ==
    { Pair([AIChunk EXCEPT !.content = content,
                           !.reasoning = <<"r">>,
                           !.additional_kwargs = carrier.additional_kwargs,
                           !.tool_calls = carrier.tool_calls,
                           !.usage_metadata = UsageMetadata,
                           !.response_metadata = TokenUsage]) :
         content \in {EmptyStr, Str(<<"o", "k">>)}, carrier \in ToolCallCarriers }
    \cup
    { Pair(AIChunk),
      Pair([AIChunk EXCEPT !.content = Str(<<"o", "k">>)]),
      Pair(ToolResult("t1", "get_weather", <<"7", "0">>)) }

InitOrder == Init /\ messages = List(<<UserMessage(<<"h", "i">>)>>)

PullOrder == \E chunk \in OrderChunks : Len(pulled) < MaxChunks /\ Pull(chunk)

NextOrder == Start \/ PullOrder \/ Exhausted

SpecOrder == InitOrder /\ [][NextOrder]_vars

\* The place of an event kind in the order content, reasoning, tool-call
\* events, usage events; 0 for the kinds the order does not name.
OrderRank(type) ==
    CASE type = "agent_choice" -> 1
      [] type = "agent_choice_reasoning" -> 2
      [] type \in {"tool_call", "partial_tool_call"} -> 3
      [] type = "token_usage" -> 4
      [] OTHER -> 0

IsModelOutput(chunk) == chunk.pair /\ chunk.c.kind = "ai"

---------------------------------------------------------------------------
(* Two concurrent invocations of stream_graph_execution *)

\* The state the accumulator of one module-level dict would give every
\* invocation.
SharedAccumulator == partial_tool_call_state

\* line 540: the partial_tool_call_state the second invocation hands to
\* _handle_node_output is its own local of line 494.
PeerAccumulator == peer.partial_tool_call_state

\* lines 490-504 of the second invocation
StartPeer ==
    /\ peer.pc = "idle"
    /\ peer' = IF EntryRaises(messages)
               THEN [peer EXCEPT !.events = @ \o FatalEvents, !.pc = "stopped"]
               ELSE [peer EXCEPT !.events = @ \o EntryEvents(messages), !.pc = "streaming"]
    /\ UNCHANGED <<pc, events, accumulated_tool_calls, partial_tool_call_state, messages,
                   fatal, pulled, frags, classified, cancelled,
                   emitters, heap, sessions, handlers, agent>>

\* lines 511-553 of the second invocation
PullPeer(chunk) ==
    /\ peer.pc = "streaming"
    /\ LET k == Len(peer.pulled) + 1
           r == ClassifyChunk(chunk, k, peer.accumulated_tool_calls, PeerAccumulator)
       IN  peer' = [peer EXCEPT !.events = @ \o r.events,
                                !.accumulated_tool_calls = r.accumulated,
                                !.partial_tool_call_state = r.state,
                                !.frags = @ \o r.trace,
                                !.pulled = Append(@, chunk)]
    /\ UNCHANGED <<pc, events, accumulated_tool_calls, partial_tool_call_state, messages,
                   fatal, pulled, frags, classified, cancelled,
                   emitters, heap, sessions, handlers, agent>>

\* lines 511, 555 of the second invocation
ExhaustedPeer ==
    /\ peer.pc = "streaming"
    /\ peer' = [peer EXCEPT !.events = Append(@, StreamStoppedFrame), !.pc = "stopped"]
    /\ UNCHANGED <<pc, events, accumulated_tool_calls, partial_tool_call_state, messages,
                   fatal, pulled, frags, classified, cancelled,
                   emitters, heap, sessions, handlers, agent>>

\* The chunks either stream is fed: a fragment that names t1 with empty
\* arguments, and continuation fragments without identity.
StreamChunks ==
    { FragmentChunk(<<OpenAIFragment("t1", "get_weather", <<>>)>>),
      FragmentChunk(<<OpenAIFragment("", "", <<"{">>)>>),
      FragmentChunk(<<OpenAIFragment("", "", <<" ">>)>>) }

InitStreams == Init /\ messages = List(<<UserMessage(<<"h", "i">>)>>)

PullStreams == \E chunk \in StreamChunks : Len(pulled) < MaxChunks /\ Pull(chunk)

PullPeerStreams == \E chunk \in StreamChunks : Len(peer.pulled) < MaxChunks /\ PullPeer(chunk)

NextStreams ==
    Start \/ PullStreams \/ Exhausted \/ StartPeer \/ PullPeerStreams \/ ExhaustedPeer

SpecStreams == InitStreams /\ [][NextStreams]_vars

\* What a stream fed `chunks` yields for its first n chunks when it runs
\* alone, from the empty state of lines 492-494.
RECURSIVE RunAlone(_, _)
RunAlone(chunks, n) ==
    IF n = 0
    THEN [events |-> <<>>, accumulated |-> <<>>, state |-> EmptyPartialState]
    ELSE LET prev == RunAlone(chunks, n - 1)
             r == ClassifyChunk(chunks[n], n, prev.accumulated, prev.state)
         IN  [events |-> prev.events \o r.events,
              accumulated |-> r.accumulated, state |-> r.state]

PartialsAlone(chunks) == SelectSeq(RunAlone(chunks, Len(chunks)).events, IsPartial)

\* In one stream's trace: the first fragment of an id is emitted, and an
\* identity a fragment did not carry comes from an earlier fragment of the
\* same stream and slot.
OwnIdentityOnly(trace) ==
    \A n \in DOMAIN trace :
        /\ (trace[n].eff_id # "" /\ \A m \in 1..(n - 1) : trace[m].eff_id # trace[n].eff_id)
              => trace[n].out # <<>>
        /\ trace[n].eff_id # trace[n].id =>
              \E m \in 1..(n - 1) :
                  trace[m].slot = trace[n].slot /\ trace[m].id = trace[n].eff_id

\* C13: whatever the interleaving of two streams, the PartialToolCall
\* events of each are those it yields when it runs alone on its chunks; the
\* first fragment of an id in a stream is emitted whether or not the other
\* stream emitted that id, and a fragment inherits only an identity
\* recorded in its own stream.
C13_StreamsIsolated ==
    /\ SelectSeq(events, IsPartial) = PartialsAlone(pulled)
    /\ SelectSeq(peer.events, IsPartial) = PartialsAlone(peer.pulled)
    /\ OwnIdentityOnly(frags)
    /\ OwnIdentityOnly(peer.frags)

\* Both streams were given t1 with empty arguments and both emitted it;
\* one of them then got a continuation it emitted as t1, the other got a
\* continuation before any identity and emitted it without one.
C13_Witness ==
    /\ \E i \in DOMAIN events : IsPartial(events[i]) /\ events[i].id = "t1"
    /\ \E i \in DOMAIN peer.events : IsPartial(peer.events[i]) /\ peer.events[i].id = "t1"
    /\ Len(frags) >= 2 /\ frags[1].id = "t1" /\ frags[2].id = "" /\ frags[2].eff_id = "t1"
    /\ Len(peer.frags) >= 2 /\ peer.frags[1].eff_id = "" /\ peer.frags[1].out # <<>>
    /\ peer.frags[2].id = "t1" /\ peer.frags[2].out # <<>>

---------------------------------------------------------------------------
(* Serialization and the descriptors it is given *)

\* The finalized tool calls that were recorded: those read by attribute.
RecordedToolCalls ==
    UNION {{pulled[k].c.tool_calls[n] : n \in DOMAIN pulled[k].c.tool_calls} :
              k \in {j \in DOMAIN pulled : IsModelOutput(pulled[j])}}

\* C14 as claimed: to_sse leaves the tool_call it serializes unchanged, so
\* the descriptor recorded in accumulated_tool_calls, which the ToolCall
\* event shares, still holds the arguments it was built with.
C14_ToSseLeavesDescriptor ==
    \A tool_call \in RecordedToolCalls :
        (tool_call.shape = "object" /\ tool_call.id \in DOMAIN accumulated_tool_calls) =>
            accumulated_tool_calls[tool_call.id]["function"]["arguments"] = tool_call.args

\* A descriptor built with the arguments {"q": 1} that holds their JSON
\* text after its ToolCall was serialized.
C14_Witness ==
    /\ "t1" \in DOMAIN accumulated_tool_calls
    /\ accumulated_tool_calls["t1"]["function"]["arguments"] = Str(JsonDumps(Tokyo))
    /\ \E i \in DOMAIN events : events[i].type = "tool_call" /\ events[i].id = "t1"

---------------------------------------------------------------------------
(* The arguments on the wire *)

Paris == Dict(<<<<"q", "1">>, <<"n", "2">>>>)

\* Arguments as the events are given them: a blank str, a str that is JSON
\* text, the empty dict, and non-empty dicts.
ArgumentValues == {Str(<<" ">>), Str(JsonDumps(Tokyo)), Dict(<<>>), Tokyo, Paris}

\* The chunks of the wire specification: each value of the arguments in a
\* streamed fragment (PartialToolCall), in a finalized tool call read by
\* attribute (ToolCall), and in the side channel of a tool result with
\* and without id (ToolCall then ToolCallResponse; ToolCallResponse alone).
WireChunks ==
    { Pair([AIChunk EXCEPT !.additional_kwargs =
               [tool_calls |-> <<[shape |-> "openai", id |-> "t0", name |-> "search",
                                  args |-> args]>>]]) : args \in ArgumentValues }
    \cup
    { Pair([AIChunk EXCEPT !.additional_kwargs = [refusal |-> "none"],
                           !.tool_calls = <<ObjectToolCall("t1", "get_weather", args)>>]) :
         args \in ArgumentValues }
    \cup
    { Pair([ToolResult(id, "get_weather", <<"7", "0">>) EXCEPT !.kwargs_arguments = args]) :
         id \in {"", "t1"}, args \in ArgumentValues }

InitWire == Init /\ messages = List(<<UserMessage(<<"h", "i">>)>>)

PullWire == \E chunk \in WireChunks : Len(pulled) < MaxChunks /\ Pull(chunk)

NextWire == Start \/ PullWire \/ Exhausted

SpecWire == InitWire /\ [][NextWire]_vars

\* The arguments the k-th chunk of the wire specification carries.
ArgumentsOf(chunk) ==
    IF chunk.c.kind = "tool" THEN chunk.c.kwargs_arguments
    ELSE IF chunk.c.tool_calls # <<>> THEN chunk.c.tool_calls[1].args
    ELSE chunk.c.additional_kwargs["tool_calls"][1].args

\* The rule of the claim: a str unchanged, {} as "", a non-empty dict as
\* its JSON text.
WireArguments(args) ==
    CASE args.t = "str" -> args.v
      [] args.t = "dict" /\ args.v = <<>> -> <<>>
      [] args.t = "dict" /\ args.v # <<>> -> JsonDumps(args)

IsString(s) == DOMAIN s = 1..Len(s) /\ \A i \in DOMAIN s : s[i] \in STRING

CarriesArguments(frame) ==
    frame.type \in {"tool_call", "partial_tool_call", "tool_call_response"}

\* C15: the arguments of every ToolCall, PartialToolCall and
\* ToolCallResponse on the wire are a string, the one the rule gives for
\* the arguments the event was built with - the same for the three kinds of
\* event - and each of the three rules returns an already normalized value
\* unchanged.
C15_ArgumentsNormalized ==
    /\ \A i \in DOMAIN events :
          CarriesArguments(events[i]) =>
             /\ IsString(events[i].arguments)
             /\ events[i].arguments = WireArguments(ArgumentsOf(pulled[events[i].k]))
             /\ NormalizeArguments(Str(events[i].arguments)) = events[i].arguments
             /\ PartialNormalizeArguments(Str(events[i].arguments)) = events[i].arguments
             /\ ResponseNormalizeArguments(Str(events[i].arguments)) = events[i].arguments
    /\ \A i, j \in DOMAIN events :
          /\ CarriesArguments(events[i]) /\ CarriesArguments(events[j])
          /\ ArgumentsOf(pulled[events[i].k]) = ArgumentsOf(pulled[events[j].k])
          => events[i].arguments = events[j].arguments

\* {"q": 1} went out as the same JSON text in a PartialToolCall, a ToolCall
\* and a ToolCallResponse built from the dict itself.
C15_Witness ==
    /\ Len(pulled) = 3
    /\ \A k \in 1..3 : ArgumentsOf(pulled[k]) = Tokyo
    /\ \E i \in DOMAIN events :
          events[i].type = "partial_tool_call" /\ events[i].arguments = JsonDumps(Tokyo)
    /\ \E i \in DOMAIN events :
          events[i].type = "tool_call" /\ events[i].arguments = JsonDumps(Tokyo)
    /\ \E i \in DOMAIN events :
          /\ events[i].type = "tool_call_response"
          /\ events[i].arguments = JsonDumps(Tokyo)
          /\ pulled[events[i].k].c.kind = "tool" /\ pulled[events[i].k].c.tool_call_id = ""

---------------------------------------------------------------------------
(* run_handler *)

\* A request whose body request.json() cannot parse.
Unparsable == [t |-> "invalid", v |-> <<>>]

\* lines 574-577: the only event of error_stream
ParseErrorFrame ==
    [Frame("error", "sample_agent", 0) EXCEPT !.error = "Failed to parse request body"]

\* The handler without its try: whatever the request holds is streamed.
RunHandlerUnguarded ==
    /\ pc = "received"
    /\ pc' = "idle"
    /\ UNCHANGED <<events, accumulated_tool_calls, partial_tool_call_state, messages, fatal,
                   pulled, frags, classified, cancelled, peer,
                   emitters, heap, sessions, handlers, agent>>

\* lines 568-609: the body is parsed; on failure the response is
\* error_stream, otherwise stream_graph_execution(body, ...), which runs
\* when the response is sent.
RunHandler ==
    /\ pc = "received"
    /\ IF messages = Unparsable
       THEN /\ events' = Append(events, ParseErrorFrame)
            /\ pc' = "closed"
       ELSE /\ events' = events
            /\ pc' = "idle"
    /\ UNCHANGED <<accumulated_tool_calls, partial_tool_call_state, messages, fatal,
                   pulled, frags, classified, cancelled, peer,
                   emitters, heap, sessions, handlers, agent>>

InitHandler ==
    /\ pc = "received"
    /\ events = <<>>
    /\ accumulated_tool_calls = <<>>
    /\ partial_tool_call_state = EmptyPartialState
    /\ messages \in Bodies \cup {Unparsable}
    /\ fatal = FALSE
    /\ pulled = <<>>
    /\ frags = <<>>
    /\ classified = <<>>
    /\ cancelled = <<>>
    /\ peer = NotStarted
    /\ emitters = NewEmitters
    /\ heap = NewHeap
    /\ sessions = <<>>
    /\ handlers = IdleHandlers
    /\ agent = EntryPoint

NextHandler == RunHandler \/ Start \/ PullChunk \/ Exhausted \/ SourceRaises

SpecHandler == InitHandler /\ [][NextHandler]_vars

\* C16: for a request whose body cannot be parsed the response stream is
\* empty until the handler has run and then holds exactly one Error, with
\* which it is closed - no StreamStarted, no StreamStopped;
\* stream_graph_execution is never entered and no chunk is pulled.  A body
\* that parses is handed to stream_graph_execution.
C16_ParseFailureOneError ==
    /\ messages = Unparsable =>
          /\ pc \in {"received", "closed"}
          /\ pc = "received" => events = <<>>
          /\ pc = "closed" =>
                /\ Len(events) = 1
                /\ events[1].type = "error"
                /\ events[1].error = "Failed to parse request body"
          /\ CountOf("stream_started") = 0
          /\ CountOf("stream_stopped") = 0
          /\ pulled = <<>>
          /\ classified = <<>>
    /\ messages # Unparsable => pc # "closed"

\* The response to an unparsable request after it was sent.
C16_Witness ==
    /\ messages = Unparsable
    /\ pc = "closed"
    /\ events = <<ParseErrorFrame>>

---------------------------------------------------------------------------
(* The user message *)

\* The request has a last message, and its content is non-empty.
HasTrailingContent ==
    /\ messages.t = "list"
    /\ messages.v # <<>>
    /\ "content" \in DOMAIN messages.v[Len(messages.v)]
    /\ messages.v[Len(messages.v)]["content"].v # <<>>

\* C17: once stream_graph_execution has started, the stream holds a
\* UserMessage exactly if the last message of the request has non-empty
\* content, and never more than one; it is the first event, it carries that
\* content and no agent_name, and StreamStarted directly follows it.
C17_UserMessageFirst ==
    /\ CountOf("user_message") <= 1
    /\ pc \in {"received", "closed", "idle"} => CountOf("user_message") = 0
    /\ pc \notin {"received", "closed", "idle"} =>
          (CountOf("user_message") = 1 <=> HasTrailingContent)
    /\ \A i \in Positions("user_message") :
          /\ i = 1
          /\ events[i].agent_name = ""
          /\ events[i].text = messages.v[Len(messages.v)]["content"].v
          /\ Len(events) >= 2
          /\ events[2].type = "stream_started"

\* A finished stream of a request with a trailing user message, with
\* chunk events after the opening pair.
C17_Witness ==
    /\ pc = "stopped"
    /\ HasTrailingContent
    /\ Len(events) >= 4
    /\ events[1].type = "user_message"
    /\ events[2].type = "stream_started"
    /\ events[3].k = 1

---------------------------------------------------------------------------
(* Token usage *)

\* usage_metadata as an object with attributes, cost among them.
UsageObject ==
    [shape |-> "object", input_tokens |-> 7, output_tokens |-> 1, total_tokens |-> 8,
     cost |-> 4]

\* The chunks of the usage specification: every combination of no
\* usage_metadata, one as a dict and one as an object with no
\* response_metadata, one without token_usage, one with it and one where
\* it is null; and a message with both whose tool calls make the handler
\* raise before it reaches the usage.
UsageChunks ==
    { Pair([AIChunk EXCEPT !.usage_metadata = um, !.response_metadata = rm]) :
         um \in {[shape |-> "none"], UsageMetadata, UsageObject},
         rm \in {<<>>, [finish_reason |-> "stop"], TokenUsage,
                 [token_usage |-> [t |-> "none"]]} }
    \cup
    { Pair([AIChunk EXCEPT !.tool_calls = <<ObjectToolCall("t1", "get_weather", Tokyo)>>,
                           !.usage_metadata = UsageObject,
                           !.response_metadata = TokenUsage]) }

InitUsage == Init /\ messages = List(<<UserMessage(<<"h", "i">>)>>)

PullUsage == \E chunk \in UsageChunks : Len(pulled) < MaxChunks /\ Pull(chunk)

NextUsage == Start \/ PullUsage \/ Exhausted

SpecUsage == InitUsage /\ [][NextUsage]_vars

IsTokenUsage(frame) == frame.type = "token_usage"

TokenUsagesOfChunk(k) == SelectSeq(FramesOfChunk(k), IsTokenUsage)

CarriesStructuredUsage(c) == c.usage_metadata.shape # "none"

CarriesLegacyUsage(c) == "token_usage" \in DOMAIN c.response_metadata

\* The legacy token_usage is there and is null.
NullLegacyUsage(c) ==
    CarriesLegacyUsage(c) /\ c.response_metadata["token_usage"].t = "none"

\* The tool calls of the message make _handle_node_output raise in its
\* loop, before the usage: an entry of tool_calls that is no container.
RaisesBeforeUsage(c) ==
    /\ c.additional_kwargs = <<>>
    /\ \E n \in DOMAIN c.tool_calls : c.tool_calls[n].shape = "object"

\* The token counts as read by attribute from usage_metadata: a dict has
\* none of the attributes.
StructuredCounts(c) ==
    IF c.usage_metadata.shape = "object"
    THEN <<c.usage_metadata.input_tokens, c.usage_metadata.output_tokens,
           c.usage_metadata.total_tokens, c.usage_metadata.cost>>
    ELSE <<0, 0, 0>>

LegacyCounts(c) ==
    LET token_usage == c.response_metadata["token_usage"].v
    IN  <<token_usage.prompt_tokens, token_usage.completion_tokens, token_usage.total_tokens>>

Count(b) == IF b THEN 1 ELSE 0

---------------------------------------------------------------------------
(* Cancellation *)

\* A clause that catches every BaseException.
CatchesBaseException(exception) == TRUE

\* lines 547, 557: `except Exception` does not catch GeneratorExit (the
\* consumer closed the generator) nor asyncio.CancelledError.
Catches(exception) == exception \notin {"GeneratorExit", "CancelledError"}

\* lines 511-553: graph.astream yields `chunk`, the loop body runs on it,
\* and the consumer closes the stream while the generator is suspended at
\* the n-th event of the chunk: GeneratorExit is raised at that yield,
\* inside the per-chunk try.  Uncaught, it ends the generator and its
\* locals with it.
ConsumerCloses(chunk, n) ==
    /\ pc = "streaming"
    /\ LET k == Len(pulled) + 1
           r == ClassifyChunk(chunk, k, accumulated_tool_calls, partial_tool_call_state)
           taken == SubSeq(r.events, 1, n)
       IN  /\ n \in 1..Len(r.events)
           /\ cancelled' = <<Len(events) + n, k>>
           /\ classified' = Append(classified, k)
           /\ IF Catches("GeneratorExit")
              THEN /\ events' = events \o taken \o <<ChunkError(k)>>
                   /\ pc' = pc
              ELSE /\ events' = events \o taken
                   /\ pc' = "cancelled"
    /\ pulled' = Append(pulled, chunk)
    /\ UNCHANGED <<accumulated_tool_calls, partial_tool_call_state, messages, fatal, frags,
                   peer,
                   emitters, heap, sessions, handlers, agent>>

\* line 511: the upstream source is cancelled; CancelledError is raised
\* out of `async for`, outside the per-chunk try and inside the outer one.
SourceCancelled ==
    /\ pc = "streaming"
    /\ cancelled' = <<Len(events), Len(pulled)>>
    /\ IF Catches("CancelledError")
       THEN /\ events' = events \o FatalEvents
            /\ fatal' = TRUE
            /\ pc' = "stopped"
       ELSE /\ events' = events
            /\ fatal' = fatal
            /\ pc' = "cancelled"
    /\ UNCHANGED <<accumulated_tool_calls, partial_tool_call_state, messages, pulled, frags,
                   classified, peer,
                   emitters, heap, sessions, handlers, agent>>

\* The chunks of the cancellation specification: chunks of one, two and
\* three events, one that fails and one that yields nothing.
CancelChunks ==
    { NotAPair,
      Pair(HumanChunk),
      Pair([AIChunk EXCEPT !.content = Str(<<"o", "k">>)]),
      Pair([AIChunk EXCEPT !.content = Str(<<"o", "k">>),
                           !.usage_metadata = UsageMetadata,
                           !.response_metadata = TokenUsage]),
      Pair(ToolResult("t1", "get_weather", <<"7", "0">>)) }

InitCancel == Init /\ messages = List(<<UserMessage(<<"h", "i">>)>>)

PullCancel == \E chunk \in CancelChunks : Len(pulled) < MaxChunks /\ Pull(chunk)

ConsumerClosesCancel ==
    \E chunk \in CancelChunks, n \in 1..3 : Len(pulled) < MaxChunks /\ ConsumerCloses(chunk, n)

NextCancel ==
    Start \/ PullCancel \/ Exhausted \/ SourceRaises \/ SourceCancelled \/ ConsumerClosesCancel

SpecCancel == InitCancel /\ [][NextCancel]_vars

\* C19: from the point where the consumer closed the stream or the source
\* was cancelled, the stream holds the events it held at that point and
\* the chunks pulled are those pulled at that point: the generator has
\* ended, no chunk is pulled or classified and no event is emitted after.
C19_NothingAfterCancellation ==
    /\ cancelled # <<>> =>
          /\ pc = "cancelled"
          /\ Len(events) = cancelled[1]
          /\ Len(pulled) = cancelled[2]
          /\ Len(classified) = cancelled[2]
          /\ \A i \in DOMAIN events : events[i].k <= cancelled[2]
    /\ pc = "cancelled" => cancelled # <<>>

\* The consumer closed the stream at the first of the three events of the
\* second chunk: the AgentChoice is out, the two TokenUsage are not.
C19_Witness ==
    /\ pc = "cancelled"
    /\ Len(pulled) = 2
    /\ pulled[2] = Pair([AIChunk EXCEPT !.content = Str(<<"o", "k">>),
                                        !.usage_metadata = UsageMetadata,
                                        !.response_metadata = TokenUsage])
    /\ Len(FramesOfChunk(2)) = 1
    /\ FramesOfChunk(2)[1].type = "agent_choice"
    /\ CountOf("token_usage") = 0

---------------------------------------------------------------------------
(* No retry *)

AgentChoicesOfChunk(k) ==
    {i \in DOMAIN events : events[i].type = "agent_choice" /\ events[i].k = k}

\* C20: the loop body has run exactly once on each chunk the source
\* yielded, in the order of arrival, so as many chunks were classified as
\* were yielded; a chunk whose classification failed has exactly one Error
\* and no chunk more than one, no chunk's content is emitted twice, and the
\* chunk after a failed one is classified as any other.
C20_EachChunkOnce ==
    /\ classified = [k \in 1..Len(pulled) |-> k]
    /\ \A i \in DOMAIN events : events[i].k <= Len(pulled)
    /\ \A k \in DOMAIN pulled :
          /\ Cardinality(ErrorsOfChunk(k)) <= 1
          /\ AlwaysRaises(pulled[k]) => Cardinality(ErrorsOfChunk(k)) = 1
          /\ Cardinality(AgentChoicesOfChunk(k)) <= 1
          /\ PlainContent(pulled[k]) => Cardinality(AgentChoicesOfChunk(k)) = 1

\* Three chunks, the first failed, the second with text after it failed
\* too, the third yielded its text; the stream ended.
C20_Witness ==
    /\ pc = "stopped"
    /\ ~fatal
    /\ classified = <<1, 2, 3>>
    /\ AlwaysRaises(pulled[1]) /\ Cardinality(ErrorsOfChunk(1)) = 1
    /\ AlwaysRaises(pulled[2]) /\ Cardinality(AgentChoicesOfChunk(2)) = 1
    /\ Cardinality(ErrorsOfChunk(2)) = 1
    /\ PlainContent(pulled[3]) /\ Cardinality(AgentChoicesOfChunk(3)) = 1

\* ---------------------------------------------------------------------
\* SSEEventEmitter (demo.py:235-250)
\* ---------------------------------------------------------------------

MaxEmits == 3

\* The variables of the stream, which the emitter, the session handler
\* and the graph never touch.
StreamVars ==
    <<pc, events, accumulated_tool_calls, partial_tool_call_state,
      messages, fatal, pulled, frags, classified, cancelled, peer>>

EventObjects == {"ev1", "ev2", "ev3"}

\* A variant of AssignAgentName that assigns whatever the event carries.
AssignAgentNameAlways(current, emitter_name) == emitter_name

\* Lines 244-245: `not event.agent_name` is true of None and of "".
AssignAgentName(current, emitter_name) ==
    IF current = "" THEN emitter_name ELSE current

\* emit_event (lines 242-246).
EmitEvent(em, ev) ==
    /\ Len(heap.log) < MaxEmits
    /\ heap' = [heap EXCEPT
                  !.agent_name[ev] = AssignAgentName(@, emitters[em].agent_name),
                  !.lists[emitters[em].events] = Append(@, ev),
                  !.log = Append(@, <<em, ev>>)]
    /\ UNCHANGED <<StreamVars, emitters, sessions, handlers, agent>>

\* get_events (lines 248-250): list.copy() builds a new list object with
\* the same elements; the caller holds it from now on.
GetEvents(em) ==
    /\ heap' = [heap EXCEPT
                  !.lists.returned = heap.lists[emitters[em].events],
                  !.returned = "returned"]
    /\ UNCHANGED <<StreamVars, emitters, sessions, handlers, agent>>

\* The caller of get_events appends to the list it was given.
CallerAppends(ev) ==
    /\ heap.returned # "none"
    /\ Len(heap.lists[heap.returned]) < MaxEmits
    /\ heap' = [heap EXCEPT !.lists[heap.returned] = Append(@, ev)]
    /\ UNCHANGED <<StreamVars, emitters, sessions, handlers, agent>>

\* The caller of get_events clears the list it was given.
CallerClears ==
    /\ heap.returned # "none"
    /\ heap.lists[heap.returned] # <<>>
    /\ heap' = [heap EXCEPT !.lists[heap.returned] = <<>>]
    /\ UNCHANGED <<StreamVars, emitters, sessions, handlers, agent>>

InitEmitter == Init /\ messages = List(<<UserMessage(<<"h", "i">>)>>)

NextEmitter ==
    \/ \E em \in DOMAIN emitters, ev \in EventObjects : EmitEvent(em, ev)
    \/ \E em \in DOMAIN emitters : GetEvents(em)
    \/ \E ev \in EventObjects : CallerAppends(ev)
    \/ CallerClears

SpecEmitter == InitEmitter /\ [][NextEmitter]_vars

\* The events passed to emit_event of one emitter, in call order.
EmittedBy(em) ==
    LET own == SelectSeq(heap.log, LAMBDA c : c[1] = em)
    IN  [i \in 1..Len(own) |-> own[i][2]]

\* The emitter of the first emit_event call on an event.
FirstEmitter(ev) ==
    heap.log[CHOOSE i \in DOMAIN heap.log :
                /\ heap.log[i][2] = ev
                /\ \A j \in 1..(i - 1) : heap.log[j][2] # ev][1]

\* C21: an event built with a non-empty agent_name keeps it through every
\* emit_event call; one built without takes the name of the emitter of
\* its first emit_event call and keeps that one too; an emitter's list
\* holds exactly the events passed to its emit_event, one per call, in
\* call order, whatever was done to the lists get_events returned.
C21_EmitterAssignsOnce ==
    /\ \A ev \in EventObjects :
          heap.agent_name[ev] =
             IF NewHeap.agent_name[ev] # "" THEN NewHeap.agent_name[ev]
             ELSE IF \E i \in DOMAIN heap.log : heap.log[i][2] = ev
                  THEN emitters[FirstEmitter(ev)].agent_name
                  ELSE ""
    /\ \A em \in DOMAIN emitters :
          heap.lists[emitters[em].events] = EmittedBy(em)

\* An event without a name was emitted by the default emitter and then by
\* the other one, a named event by the default emitter; the caller
\* appended to the list get_events gave it.
C21_Witness ==
    /\ heap.log = <<<<"a", "ev1">>, <<"b", "ev1">>, <<"a", "ev3">>>>
    /\ heap.agent_name.ev1 = "sample_agent"
    /\ heap.agent_name.ev3 = "planner"
    /\ heap.returned = "returned"
    /\ heap.lists.returned = <<"ev1", "ev3", "ev2">>
    /\ heap.lists.list_a = <<"ev1", "ev3">>

\* ---------------------------------------------------------------------
\* Content and reasoning of a model-output chunk (demo.py:339-351)
\* ---------------------------------------------------------------------

\* What `content` can be: empty, blank, text, text with blanks around it,
\* a list of blocks.
Contents ==
    { EmptyStr, Str(<<"\n", " ">>), Str(<<"o", "k">>),
      Str(<<" ", "o", "k", "\n">>), List(<<"b">>) }

\* No `reasoning` attribute or an empty one, and a non-empty one.
Reasonings == { <<>>, <<"w", "h", "y">> }

\* Model-output chunks with every content and reasoning, alone and after
\* a complete tool call on the same chunk, and a tool result.
ContentChunks ==
    { Pair([AIChunk EXCEPT !.content = content,
                           !.reasoning = reasoning,
                           !.tool_calls = tool_calls]) :
        content \in Contents, reasoning \in Reasonings,
        tool_calls \in {<<>>, <<ObjectToolCall("t1", "get_weather", Tokyo)>>} }
    \cup { Pair(ToolResult("t1", "get_weather", <<"7", "0">>)) }

InitContent == Init /\ messages = List(<<UserMessage(<<"h", "i">>)>>)

PullContent == \E chunk \in ContentChunks : Len(pulled) < MaxChunks /\ Pull(chunk)

NextContent == Start \/ PullContent \/ Exhausted

SpecContent == InitContent /\ [][NextContent]_vars

\* The texts of the events of one type that chunk k yielded, in order.
TextsOfChunk(type, k) ==
    LET own == SelectSeq(events, LAMBDA e : e.k = k /\ e.type = type)
    IN  [i \in 1..Len(own) |-> own[i].text]

\* C22: a model-output chunk yields one AgentChoice with its content as
\* it came when the content is a str that is not blank after trimming,
\* and none otherwise; it yields one AgentChoiceReasoning with its
\* reasoning when it has a non-empty one, and none otherwise; a chunk
\* that is no model output yields neither.
C22_ContentAndReasoning ==
    \A k \in DOMAIN pulled :
        LET c == pulled[k].c
        IN  IF IsModelOutput(pulled[k])
            THEN /\ TextsOfChunk("agent_choice", k) =
                       IF c.content.t = "str" /\ Strip(c.content.v) # <<>>
                       THEN <<c.content.v>> ELSE <<>>
                 /\ TextsOfChunk("agent_choice_reasoning", k) =
                       IF c.reasoning # <<>> THEN <<c.reasoning>> ELSE <<>>
            ELSE /\ TextsOfChunk("agent_choice", k) = <<>>
                 /\ TextsOfChunk("agent_choice_reasoning", k) = <<>>

\* A chunk with blank content and a reasoning gave the reasoning only, a
\* chunk with blanks around its text and a tool call gave the text with
\* the blanks, a chunk with a list of blocks gave nothing.
C22_Witness ==
    /\ pc = "stopped"
    /\ Len(pulled) = 3
    /\ pulled[1].c.kind = "ai" /\ pulled[1].c.content = Str(<<"\n", " ">>)
    /\ pulled[1].c.reasoning = <<"w", "h", "y">>
    /\ TextsOfChunk("agent_choice", 1) = <<>>
    /\ TextsOfChunk("agent_choice_reasoning", 1) = <<<<"w", "h", "y">>>>
    /\ pulled[2].c.kind = "ai" /\ pulled[2].c.content = Str(<<" ", "o", "k", "\n">>)
    /\ pulled[2].c.tool_calls # <<>>
    /\ TextsOfChunk("agent_choice", 2) = <<<<" ", "o", "k", "\n">>>>
    /\ pulled[3].c.kind = "ai" /\ pulled[3].c.content = List(<<"b">>)
    /\ pulled[3].c.reasoning = <<>>
    /\ FramesOfChunk(3) = <<>>

\* ---------------------------------------------------------------------
\* The identity of a PartialToolCall (demo.py:384-408)
\* ---------------------------------------------------------------------

\* Some fragment of the stream so far brought `id` and `name` together.
ObservedTogether(id, name) ==
    \E n \in DOMAIN frags : frags[n].id = id /\ frags[n].name = name

\* C23: every PartialToolCall with a non-empty id and a non-empty name
\* carries a pair that one fragment of the stream brought together.
C23_IdentityObservedTogether ==
    \A i \in DOMAIN events :
        (IsPartial(events[i]) /\ events[i].id # "" /\ events[i].name # "")
            => ObservedTogether(events[i].id, events[i].name)

\* One chunk brought t1/get_weather on slot 0 and t2/search on slot 1;
\* the next brought the id t2 without a name on slot 0 and was emitted as
\* t2/get_weather.
C23_Witness ==
    /\ Len(pulled) >= 2
    /\ pulled[1] = FragmentChunk(<<OpenAIFragment("t1", "get_weather", <<>>),
                                   OpenAIFragment("t2", "search", <<>>)>>)
    /\ Len(frags) >= 3
    /\ frags[3].slot = 0 /\ frags[3].id = "t2" /\ frags[3].name = ""
    /\ frags[3].eff_name = "get_weather"
    /\ \E i \in DOMAIN events :
          /\ IsPartial(events[i]) /\ events[i].k = 2
          /\ events[i].id = "t2" /\ events[i].name = "get_weather"
    /\ ~ObservedTogether("t2", "get_weather")

\* ---------------------------------------------------------------------
\* emitted_ids (demo.py:412-431)
\* ---------------------------------------------------------------------

\* The ids of the identified PartialToolCall frames among `frames`.
PartialIds(frames) ==
    {frames[i].id : i \in {j \in DOMAIN frames : IsPartial(frames[j])}} \ {""}

\* The fragments that resolved to `id`, were emitted, and had empty or
\* whitespace-only arguments.
BlankEmitted(id) ==
    {n \in FragmentsOf(id) : frags[n].out # <<>> /\ ~NonBlank(frags[n].args)}

\* What one step of the stream does to emitted_ids: none leaves, and the
\* ids that enter are the ids of the PartialToolCall frames of this step
\* that were not in it.
EmittedIdsStep ==
    LET before == partial_tool_call_state.emitted_ids
        after == partial_tool_call_state'.emitted_ids
        yielded == SubSeq(events', Len(events) + 1, Len(events'))
    IN  /\ before \subseteq after
        /\ Len(events) <= Len(events')
        /\ after \ before = PartialIds(yielded) \ before

\* emitted_ids holds the ids of the PartialToolCall frames of the stream,
\* and no id has more than one PartialToolCall with blank arguments.
EmittedIdsState ==
    /\ TraceMatchesEvents
    /\ partial_tool_call_state.emitted_ids = PartialIds(events)
    /\ \A id \in FragmentIds \ {""} :
          /\ Cardinality(BlankEmitted(id)) <= 1
          /\ BlankEmitted(id) # {} => BlankEmitted(id) = {FirstOf(id)}

\* C24: in one stream emitted_ids only grows; an id enters it in the step
\* that yields the PartialToolCall of the id's first sighting and in no
\* other; and for every non-empty id at most one PartialToolCall with
\* blank arguments is yielded, the one of its first sighting.
C24_EmittedIdsGrow == []EmittedIdsState /\ [][EmittedIdsStep]_vars

\* t1 came with empty arguments and was emitted, t2 came, t1 came again
\* with blank arguments and was not emitted: both ids are remembered.
C24_Witness ==
    /\ Len(frags) = 3
    /\ frags[1].eff_id = "t1" /\ frags[1].args = Str(<<>>) /\ frags[1].out # <<>>
    /\ frags[2].eff_id = "t2" /\ frags[2].out # <<>>
    /\ frags[3].eff_id = "t1" /\ frags[3].args = Str(<<" ">>) /\ frags[3].out = <<>>
    /\ partial_tool_call_state.emitted_ids = {"t1", "t2"}
    /\ BlankEmitted("t1") = {1}

\* ---------------------------------------------------------------------
\* create_session_handler (demo.py:615-621)
\* ---------------------------------------------------------------------

MaxCalls == 4

\* str(n) of a positive int, as the f-string of line 619 formats it.
RECURSIVE Decimal(_)
Decimal(n) ==
    LET digit == <<"0", "1", "2", "3", "4", "5", "6", "7", "8", "9">>[(n % 10) + 1]
    IN  IF n < 10 THEN <<digit>> ELSE Append(Decimal(n \div 10), digit)

\* f"session-{n}"
SessionId(n) == <<"s", "e", "s", "s", "i", "o", "n", "-">> \o Decimal(n)

\* The calls of create_session_handler begun so far.
CallsBegun ==
    LET RECURSIVE Sum(_)
        Sum(T) == IF T = {} THEN 0
                  ELSE LET t == CHOOSE x \in T : TRUE
                       IN  Len(handlers[t].returned)
                           + (IF handlers[t].pc = "idle" THEN 0 ELSE 1)
                           + Sum(T \ {t})
    IN  Sum(DOMAIN handlers)

\* Line 619: a thread of the pool enters the handler and computes the id
\* from len(sessions).
ComputeSessionId(t) ==
    /\ handlers[t].pc = "idle"
    /\ CallsBegun < MaxCalls
    /\ handlers' = [handlers EXCEPT
                      ![t].pc = "computed",
                      ![t].session_id = SessionId(Cardinality(DOMAIN sessions) + 1)]
    /\ UNCHANGED <<StreamVars, emitters, heap, sessions, agent>>

\* Line 620: the item assignment, which replaces an entry of the same key.
StoreSession(t) ==
    /\ handlers[t].pc = "computed"
    /\ sessions' =
          [id \in DOMAIN sessions \cup {handlers[t].session_id} |->
              IF id = handlers[t].session_id
              THEN [id |-> handlers[t].session_id, messages |-> <<>>]
              ELSE sessions[id]]
    /\ handlers' = [handlers EXCEPT ![t].pc = "stored"]
    /\ UNCHANGED <<StreamVars, emitters, heap, agent>>

\* Line 621: the handler returns what sessions holds under its id.
ReturnSession(t) ==
    /\ handlers[t].pc = "stored"
    /\ handlers' = [handlers EXCEPT
                      ![t].pc = "idle",
                      ![t].session_id = <<>>,
                      ![t].returned = Append(@, sessions[handlers[t].session_id].id)]
    /\ UNCHANGED <<StreamVars, emitters, heap, sessions, agent>>

InitSessions == Init /\ messages = List(<<UserMessage(<<"h", "i">>)>>)

NextSessions ==
    \E t \in DOMAIN handlers :
        \/ ComputeSessionId(t)
        \/ StoreSession(t)
        \/ ReturnSession(t)

SpecSessions == InitSessions /\ [][NextSessions]_vars

\* The calls that have run line 620.
CallsStored == CallsBegun - Cardinality({t \in DOMAIN handlers : handlers[t].pc = "computed"})

\* C25: every call of create_session_handler returns an id no earlier call
\* returned, and sessions holds one entry per call that has stored, also
\* when the calls run in two threads at once.
C25_SessionIdsUnique ==
    /\ \A t, u \in DOMAIN handlers :
          \A i \in DOMAIN handlers[t].returned, j \in DOMAIN handlers[u].returned :
              (t # u \/ i # j) => handlers[t].returned[i] # handlers[u].returned[j]
    /\ Cardinality(DOMAIN sessions) = CallsStored

\* Two threads read len(sessions) = 0 before either stored: both returned
\* session-1 and sessions holds one entry.
C25_Witness ==
    /\ handlers[1].returned = <<SessionId(1)>>
    /\ handlers[2].returned = <<SessionId(1)>>
    /\ handlers[1].pc = "idle" /\ handlers[2].pc = "idle"
    /\ DOMAIN sessions = {SessionId(1)}

\* ---------------------------------------------------------------------
\* The graph of the agent (agent.py:28-49)
\* ---------------------------------------------------------------------

\* Calls of chat_node in one run.
MaxTurns == 5

\* langgraph.graph.END
END == "__end__"

\* What model.ainvoke can return (agent.py:31-34): an AIMessage with one
\* or two tool calls or none, and a message of another type, with and
\* without tool calls.
Responses ==
    { [type |-> "ai", tool_calls |-> <<"t1">>],
      [type |-> "ai", tool_calls |-> <<"t1", "t2">>],
      [type |-> "ai", tool_calls |-> <<>>],
      [type |-> "other", tool_calls |-> <<"t1">>],
      [type |-> "other", tool_calls |-> <<>>] }

\* A variant of Goto that does not look at the type of the response.
GotoOnToolCallsOnly(response) ==
    IF response.tool_calls # <<>> THEN "tool_node" ELSE END

\* agent.py:36-39: the target of the Command chat_node returns.
Goto(response) ==
    IF response.type = "ai" /\ response.tool_calls # <<>> THEN "tool_node" ELSE END

\* chat_node (agent.py:28-39): the Command's update appends the response
\* to the messages of the state, its goto names the next node.
ChatNode(response) ==
    /\ agent.node = "chat_node"
    /\ Cardinality({i \in DOMAIN agent.visited : agent.visited[i] = "chat_node"})
          <= MaxTurns
    /\ agent' = [node |-> Goto(response),
                 messages |-> Append(agent.messages, response),
                 visited |-> Append(agent.visited, Goto(response))]
    /\ UNCHANGED <<StreamVars, emitters, heap, sessions, handlers>>

\* The ToolMessage of each tool call of a message.
ToolMessages(message) ==
    [i \in DOMAIN message.tool_calls |->
        [type |-> "tool", tool_calls |-> <<>>, tool_call_id |-> message.tool_calls[i]]]

\* tool_node (agent.py:43) runs the tool calls of the last message and
\* appends their results; its one edge leads to chat_node (agent.py:44).
ToolNodeStep ==
    /\ agent.node = "tool_node"
    /\ agent' = [node |-> "chat_node",
                 messages |-> agent.messages
                                 \o ToolMessages(agent.messages[Len(agent.messages)]),
                 visited |-> Append(agent.visited, "chat_node")]
    /\ UNCHANGED <<StreamVars, emitters, heap, sessions, handlers>>

InitAgent == Init /\ messages = List(<<UserMessage(<<"h", "i">>)>>)

NextAgent == (\E response \in Responses : ChatNode(response)) \/ ToolNodeStep

SpecAgent == InitAgent /\ [][NextAgent]_vars

\* The run so far: it began at chat_node, every tool_node is followed by
\* chat_node, END comes last and after chat_node only.
AgentPath ==
    /\ agent.visited[1] = "chat_node"
    /\ agent.node = agent.visited[Len(agent.visited)]
    /\ \A i \in 1..(Len(agent.visited) - 1) :
          /\ agent.visited[i] # END
          /\ agent.visited[i] = "tool_node" => agent.visited[i + 1] = "chat_node"
          /\ agent.visited[i] = "chat_node" => agent.visited[i + 1] \in {"tool_node", END}
          /\ agent.visited[i + 1] = END => agent.visited[i] = "chat_node"

\* One step of the run: chat_node appends its response and goes to
\* tool_node exactly when the response is an AIMessage with tool calls,
\* else to END; tool_node goes to chat_node; nothing leaves END.
AgentStep ==
    LET last == agent'.messages[Len(agent'.messages)]
    IN  CASE agent.node = "chat_node" ->
               /\ agent'.messages = Append(agent.messages, last)
               /\ (agent'.node = "tool_node")
                     <=> (last.type = "ai" /\ last.tool_calls # <<>>)
               /\ agent'.node # "tool_node" => agent'.node = END
          [] agent.node = "tool_node" -> agent'.node = "chat_node"
          [] OTHER -> agent' = agent

\* C26: the run starts at chat_node; chat_node goes to tool_node exactly
\* when the response is an AIMessage with a non-empty tool_calls and to
\* END otherwise, with the response appended to the messages either way;
\* tool_node always goes to chat_node; END is reached from chat_node only.
C26_GraphRouting == []AgentPath /\ [][AgentStep]_vars

\* A response with tool calls, the tool node, then a response of another
\* type that lists a tool call: the run ended.
C26_Witness ==
    /\ agent.visited = <<"chat_node", "tool_node", "chat_node", END>>
    /\ Len(agent.messages) = 5
    /\ agent.messages[2] = [type |-> "ai", tool_calls |-> <<"t1", "t2">>]
    /\ agent.messages[3].type = "tool" /\ agent.messages[4].type = "tool"
    /\ agent.messages[5] = [type |-> "other", tool_calls |-> <<"t1">>]

====
